---- MODULE Spec2Model ----
(***************************************************************************)
(* getTraefikConfig (server/lib/traefik/getTraefikConfig.ts): the dynamic  *)
(* routing-configuration synthesizer.  One call reads the joined           *)
(* sites/targets/resources/domains/targetHealthCheck rows (the only        *)
(* suspension point), groups them into route groups and assembles the      *)
(* configuration document.                                                 *)
(*                                                                         *)
(* Values.  A JavaScript string is a sequence of tokens: a token is either *)
(* one character the code splits, trims or replaces at ("." "/" "-" " ")   *)
(* or a run of characters it handles as a unit ("example", "8080").        *)
(* A nullable column is Null or Some(v).                                   *)
(***************************************************************************)
EXTENDS Integers, Sequences, FiniteSets, TLC

VARIABLES resources, targets, sites, targetHealthCheck, domains, traefik,
          rewriteThrows, args, pc, rows, doc, prev

tables == <<resources, targets, sites, targetHealthCheck, domains>>
vars == <<resources, targets, sites, targetHealthCheck, domains, traefik,
          rewriteThrows, args, pc, rows, doc, prev>>

(***************************************************************************)
(* Nullable values and JavaScript truthiness                               *)
(***************************************************************************)
Null == <<>>
Some(v) == <<v>>
Val(o) == o[1]
\* a string is truthy iff it is neither null nor ""
TruthyStr(o) == o # Null /\ Val(o) # <<>>
\* a number is truthy iff it is neither null nor 0
TruthyNum(o) == o # Null /\ Val(o) # 0
\* a nullable boolean is truthy iff it is true
TruthyBool(o) == o # Null /\ Val(o) = TRUE
\* x || d on strings
OrStr(o, d) == IF TruthyStr(o) THEN Val(o) ELSE d

S(t) == <<t>>
RECURSIVE Join(_, _)
\* Array.prototype.join
Join(parts, sep) ==
    IF parts = <<>> THEN <<>>
    ELSE IF Len(parts) = 1 THEN parts[1]
    ELSE parts[1] \o sep \o Join(Tail(parts), sep)
RECURSIVE Split(_, _)
\* String.prototype.split on a one-token separator
Split(s, sep) ==
    IF \A i \in 1..Len(s) : s[i] # sep THEN <<s>>
    ELSE LET i == CHOOSE j \in 1..Len(s) :
                     s[j] = sep /\ \A k \in 1..(j - 1) : s[k] # sep
         IN  <<SubSeq(s, 1, i - 1)>> \o Split(SubSeq(s, i + 1, Len(s)), sep)
\* Array.prototype.filter(Boolean) on an array of strings
FilterBoolean(parts) == SelectSeq(parts, LAMBDA p : p # <<>>)
StartsWith(s, t) == Len(s) >= 1 /\ s[1] = t
\* `${n}` for a number
NumStr(n) == S(ToString(n))
\* `${x}` for a nullable string and a nullable number: null prints as "null"
StrTpl(o) == IF o = Null THEN S("null") ELSE Val(o)
NumTpl(o) == IF o = Null THEN S("null") ELSE NumStr(Val(o))
\* the token of the backquote character, which a TLA+ string cannot hold
BT == "'"

(***************************************************************************)
(* Collaborators of ./utils (sanitize, validatePathRewriteConfig)          *)
(***************************************************************************)
\* the tokens that sanitize keeps: everything that is not a separator other than "-"
Separators == {".", "/", ":", " ", "_", "*", "^", "$", "(", ")"}
RECURSIVE CollapseDashes(_)
CollapseDashes(s) ==
    IF Len(s) <= 1 THEN s
    ELSE IF s[1] = "-" /\ s[2] = "-" THEN CollapseDashes(Tail(s))
    ELSE <<s[1]>> \o CollapseDashes(Tail(s))
StripDashes(s) ==
    LET a == IF s # <<>> /\ s[1] = "-" THEN Tail(s) ELSE s
    IN  IF a # <<>> /\ a[Len(a)] = "-" THEN SubSeq(a, 1, Len(a) - 1) ELSE a
\* sanitize(input): undefined for a null or empty input; otherwise every
\* character outside [a-zA-Z0-9-] becomes "-", runs of "-" collapse to one
\* and a leading or trailing "-" is removed
sanitize(o) ==
    IF ~TruthyStr(o) THEN Null
    ELSE Some(StripDashes(CollapseDashes(
             [i \in 1..Len(Val(o)) |->
                 IF Val(o)[i] \in Separators THEN "-" ELSE Val(o)[i]])))

PathMatchTypes == {S("exact"), S("prefix"), S("regex")}
RewritePathTypes == {S("exact"), S("prefix"), S("regex"), S("stripPrefix")}
\* validatePathRewriteConfig(path, pathMatchType, rewritePath, rewritePathType).isValid:
\* a configuration without rewrite is valid; one with a rewrite needs a path,
\* a known match type and a known rewrite type
validatePathRewriteConfig(path, pathMatchType, rewritePath, rewritePathType) ==
    IF ~TruthyStr(rewritePath) /\ ~TruthyStr(rewritePathType) THEN TRUE
    ELSE /\ TruthyStr(path)
         /\ TruthyStr(pathMatchType) /\ Val(pathMatchType) \in PathMatchTypes
         /\ TruthyStr(rewritePathType) /\ Val(rewritePathType) \in RewritePathTypes

(***************************************************************************)
(* The snapshot read: db.select(...).from(sites).innerJoin(...).where(...) *)
(***************************************************************************)
\* leftJoin(targetHealthCheck): the target's health, null without a record
HcHealthOf(t) ==
    IF \E h \in targetHealthCheck : h.targetId = t.targetId
    THEN (CHOOSE h \in targetHealthCheck : h.targetId = t.targetId).hcHealth
    ELSE Null
\* leftJoin(domains): the resolver of the resource's domain, null without one
CertResolverOf(r) ==
    IF r.domainId # Null /\ \E d \in domains : d.domainId = Val(r.domainId)
    THEN (CHOOSE d \in domains : d.domainId = Val(r.domainId)).certResolver
    ELSE Null
\* the selected columns of one joined (site, target, resource) tuple
JoinedRow(s, t, r) ==
    [resourceId |-> r.resourceId, resourceName |-> r.name,
     fullDomain |-> r.fullDomain, ssl |-> r.ssl, http |-> r.http,
     proxyPort |-> r.proxyPort, protocol |-> r.protocol,
     subdomain |-> r.subdomain, domainId |-> r.domainId,
     enabled |-> r.enabled, stickySession |-> r.stickySession,
     tlsServerName |-> r.tlsServerName, setHostHeader |-> r.setHostHeader,
     enableProxy |-> r.enableProxy, headers |-> r.headers,
     proxyProtocol |-> r.proxyProtocol,
     proxyProtocolVersion |-> r.proxyProtocolVersion,
     maintenanceModeEnabled |-> r.maintenanceModeEnabled,
     maintenanceModeType |-> r.maintenanceModeType,
     maintenanceTitle |-> r.maintenanceTitle,
     maintenanceMessage |-> r.maintenanceMessage,
     maintenanceEstimatedTime |-> r.maintenanceEstimatedTime,
     targetId |-> t.targetId, targetEnabled |-> t.enabled, ip |-> t.ip,
     method |-> t.method, port |-> t.port, internalPort |-> t.internalPort,
     hcHealth |-> HcHealthOf(t), path |-> t.path,
     pathMatchType |-> t.pathMatchType, rewritePath |-> t.rewritePath,
     rewritePathType |-> t.rewritePathType, priority |-> t.priority,
     siteId |-> s.siteId, siteType |-> s.type, siteOnline |-> s.online,
     subnet |-> s.subnet, exitNodeId |-> s.exitNodeId,
     domainCertResolver |-> CertResolverOf(r)]
\* a where clause without the isNull alternative: ne() alone is not true of a
\* null health
WhereClause_WithoutIsNull(row, a) ==
    /\ row.targetEnabled = TRUE
    /\ row.enabled = TRUE
    /\ \/ row.exitNodeId = Some(a.exitNodeId)
       \/ /\ row.exitNodeId = Null
          /\ S("local") \in a.siteTypes
          /\ row.siteType = S("local")
    /\ (row.hcHealth # Null /\ row.hcHealth # Some(S("unhealthy")))
    /\ row.siteType \in a.siteTypes
    /\ IF a.allowRawResources THEN row.http # Null ELSE row.http = Some(TRUE)
\* a where clause that takes the sites of every exit node
WhereClause_AnyExitNode(row, a) ==
    /\ row.targetEnabled = TRUE
    /\ row.enabled = TRUE
    /\ \/ (row.hcHealth # Null /\ row.hcHealth # Some(S("unhealthy")))
       \/ row.hcHealth = Null
    /\ row.siteType \in a.siteTypes
    /\ IF a.allowRawResources THEN row.http # Null ELSE row.http = Some(TRUE)
\* a where clause that reads filterOutNamespaceDomains and drops the
\* resources with a domain when it is set
WhereClause_ReadsNamespaceFlag(row, a) ==
    /\ row.targetEnabled = TRUE
    /\ row.enabled = TRUE
    /\ \/ row.exitNodeId = Some(a.exitNodeId)
       \/ /\ row.exitNodeId = Null
          /\ S("local") \in a.siteTypes
          /\ row.siteType = S("local")
    /\ \/ (row.hcHealth # Null /\ row.hcHealth # Some(S("unhealthy")))
       \/ row.hcHealth = Null
    /\ row.siteType \in a.siteTypes
    /\ IF a.allowRawResources THEN row.http # Null ELSE row.http = Some(TRUE)
    /\ a.filterOutNamespaceDomains => row.domainId = Null
\* the WHERE clause
WhereClause(row, a) ==
    /\ row.targetEnabled = TRUE
    /\ row.enabled = TRUE
    /\ \/ row.exitNodeId = Some(a.exitNodeId)
       \/ /\ row.exitNodeId = Null
          /\ S("local") \in a.siteTypes
          /\ row.siteType = S("local")
    /\ \/ (row.hcHealth # Null /\ row.hcHealth # Some(S("unhealthy")))
       \/ row.hcHealth = Null
    /\ row.siteType \in a.siteTypes
    /\ IF a.allowRawResources THEN row.http # Null ELSE row.http = Some(TRUE)
\* ORDER BY targets.priority DESC, targets.targetId
RowBefore(x, y) ==
    \/ x.priority > y.priority
    \/ x.priority = y.priority /\ x.targetId < y.targetId
RECURSIVE OrderBy(_)
OrderBy(rs) ==
    IF rs = {} THEN <<>>
    ELSE LET first == CHOOSE x \in rs : \A y \in rs \ {x} : RowBefore(x, y)
         IN  <<first>> \o OrderBy(rs \ {first})
\* resourcesWithTargetsAndSites
resourcesWithTargetsAndSites(a) ==
    OrderBy({row \in {JoinedRow(s, t, r) :
                        <<s, t, r>> \in {x \in sites \X targets \X resources :
                                           /\ x[2].siteId = x[1].siteId
                                           /\ x[3].resourceId = x[2].resourceId}} :
               WhereClause(row, a)})

(***************************************************************************)
(* Route-group aggregation: resourcesWithTargetsAndSites.forEach(...)      *)
(***************************************************************************)
\* const key = sanitize(mapKey), as it is interpolated into the names
mapKeyOf(row) ==
    LET targetPath == OrStr(sanitize(row.path), <<>>)
        pathMatchType == OrStr(row.pathMatchType, <<>>)
        rewritePath == OrStr(row.rewritePath, <<>>)
        rewritePathType == OrStr(row.rewritePathType, <<>>)
        pathKey == Join(FilterBoolean(<<targetPath, pathMatchType,
                                        rewritePath, rewritePathType>>), S("-"))
        idStr == IF row.resourceId = 0 THEN <<>> ELSE NumStr(row.resourceId)
        mapKey == Join(FilterBoolean(<<idStr, pathKey>>), S("-"))
    IN  OrStr(sanitize(Some(mapKey)), S("undefined"))
\* the value stored by resourcesMap.set(key, {...}) on the first row of a key
NewGroup(row) ==
    [resourceId |-> row.resourceId,
     name |-> OrStr(sanitize(Some(row.resourceName)), <<>>),
     fullDomain |-> row.fullDomain, ssl |-> row.ssl, http |-> row.http,
     proxyPort |-> row.proxyPort, protocol |-> row.protocol,
     subdomain |-> row.subdomain, domainId |-> row.domainId,
     enabled |-> row.enabled, stickySession |-> row.stickySession,
     tlsServerName |-> row.tlsServerName, setHostHeader |-> row.setHostHeader,
     enableProxy |-> row.enableProxy, targets |-> <<>>,
     headers |-> row.headers, proxyProtocol |-> row.proxyProtocol,
     proxyProtocolVersion |->
         IF row.proxyProtocolVersion = Null THEN 1
         ELSE Val(row.proxyProtocolVersion),
     path |-> row.path, pathMatchType |-> row.pathMatchType,
     rewritePath |-> row.rewritePath, rewritePathType |-> row.rewritePathType,
     priority |-> row.priority,
     domainCertResolver |-> row.domainCertResolver,
     maintenanceModeEnabled |-> row.maintenanceModeEnabled,
     maintenanceModeType |-> row.maintenanceModeType,
     maintenanceTitle |-> row.maintenanceTitle,
     maintenanceMessage |-> row.maintenanceMessage,
     maintenanceEstimatedTime |-> row.maintenanceEstimatedTime]
\* the element pushed on resourcesMap.get(key).targets
TargetWithSite(row) ==
    [resourceId |-> row.resourceId, targetId |-> row.targetId, ip |-> row.ip,
     method |-> row.method, port |-> row.port,
     internalPort |-> row.internalPort, enabled |-> row.targetEnabled,
     site |-> [siteId |-> row.siteId, type |-> row.siteType,
               subnet |-> row.subnet, exitNodeId |-> row.exitNodeId,
               online |-> row.siteOnline]]
\* a Map in insertion order: keys (the order of entries()) and get (key -> value)
EmptyMap == [keys |-> <<>>, get |-> <<>>]
MapHas(m, k) == k \in DOMAIN m.get
MapSet(m, k, v) ==
    [keys |-> IF MapHas(m, k) THEN m.keys ELSE Append(m.keys, k),
     get |-> [x \in (DOMAIN m.get) \cup {k} |-> IF x = k THEN v ELSE m.get[x]]]
\* a callback that does not validate the first row of a key
AddRow_WithoutValidation(m, row) ==
    LET key == mapKeyOf(row)
        m1 == IF MapHas(m, key) THEN m ELSE MapSet(m, key, NewGroup(row))
        g == m1.get[key]
    IN  MapSet(m1, key, [g EXCEPT !.targets = Append(@, TargetWithSite(row))])
\* the body of the forEach callback for one row
AddRow(m, row) ==
    LET key == mapKeyOf(row)
        valid == validatePathRewriteConfig(row.path, row.pathMatchType,
                                           row.rewritePath, row.rewritePathType)
    IN  IF ~MapHas(m, key) /\ ~valid THEN m
        ELSE LET m1 == IF MapHas(m, key) THEN m ELSE MapSet(m, key, NewGroup(row))
                 g == m1.get[key]
             IN  MapSet(m1, key,
                        [g EXCEPT !.targets = Append(@, TargetWithSite(row))])
RECURSIVE AddRows(_, _)
AddRows(m, rs) == IF rs = <<>> THEN m ELSE AddRows(AddRow(m, Head(rs)), Tail(rs))
\* resourcesMap after the forEach
resourcesMapOf(rs) == AddRows(EmptyMap, rs)

(***************************************************************************)
(* The output document: family -> section -> name -> entry                 *)
(***************************************************************************)
redirectHttpsMiddlewareName == <<"redirect", "-", "to", "-", "https">>
badgerMiddlewareName == S("badger")
Undefined == <<>>
HasFamily(out, fam) == fam \in DOMAIN out
HasSection(out, fam, sec) == HasFamily(out, fam) /\ sec \in DOMAIN out[fam]
Section(out, fam, sec) == IF HasSection(out, fam, sec) THEN out[fam][sec] ELSE <<>>
HasEntry(out, fam, sec, name) == name \in DOMAIN Section(out, fam, sec)
\* obj[k] = v
Put(obj, k, v) == [x \in (DOMAIN obj) \cup {k} |-> IF x = k THEN v ELSE obj[x]]
\* Object.assign(obj, more)
Assign(obj, more) ==
    [x \in (DOMAIN obj) \cup (DOMAIN more) |->
        IF x \in DOMAIN more THEN more[x] ELSE obj[x]]
\* config_output[fam][sec][name] = entry, the section created when missing
PutEntry(out, fam, sec, name, entry) ==
    Put(out, fam, Put(out[fam], sec, Put(Section(out, fam, sec), name, entry)))
\* if (!config_output[fam][sec]) config_output[fam][sec] = {}
InitSection(out, fam, sec) ==
    IF HasSection(out, fam, sec) THEN out ELSE Put(out, fam, Put(out[fam], sec, <<>>))

(***************************************************************************)
(* Availability and backend servers                                        *)
(***************************************************************************)
IsLocalOrWireguard(target) ==
    target.site.type = S("local") \/ target.site.type = S("wireguard")
IsNewt(target) == target.site.type = S("newt")
\* a scan that never finds an online site
anySitesOnline_Never(ts) == FALSE
\* targets.some((t) => t.site.online)
anySitesOnline(ts) == \E i \in 1..Len(ts) : ts[i].site.online
\* an availability test that lacks the online preference of the server list
IsAvailable_NoOnlinePreference(target, ts) ==
    IF ~target.enabled THEN FALSE
    ELSE IF IsLocalOrWireguard(target)
         THEN TruthyStr(target.ip) /\ TruthyNum(target.port) /\ TruthyStr(target.method)
    ELSE IF IsNewt(target)
         THEN TruthyNum(target.internalPort) /\ TruthyStr(target.method)
              /\ TruthyStr(target.site.subnet)
    ELSE FALSE
\* the filter callback of availableServers
IsAvailable(target, ts) ==
    IF ~target.enabled THEN FALSE
    ELSE IF anySitesOnline(ts) /\ ~target.site.online THEN FALSE
    ELSE IF IsLocalOrWireguard(target)
         THEN TruthyStr(target.ip) /\ TruthyNum(target.port) /\ TruthyStr(target.method)
    ELSE IF IsNewt(target)
         THEN TruthyNum(target.internalPort) /\ TruthyStr(target.method)
              /\ TruthyStr(target.site.subnet)
    ELSE FALSE
availableServers(ts) == SelectSeq(ts, LAMBDA t : IsAvailable(t, ts))
\* a filter without the fallback: the targets of offline sites are always
\* excluded
HttpServerFilter_OnlineOnly(target, ts) ==
    IF ~target.enabled THEN FALSE
    ELSE IF ~target.site.online THEN FALSE
    ELSE IF IsLocalOrWireguard(target)
         THEN ~(~TruthyStr(target.ip) \/ ~TruthyNum(target.port)
                \/ ~TruthyStr(target.method))
    ELSE IF IsNewt(target)
         THEN ~(~TruthyNum(target.internalPort) \/ ~TruthyStr(target.method)
                \/ ~TruthyStr(target.site.subnet))
    ELSE TRUE
\* the .filter callback of the HTTP service's servers
HttpServerFilter(target, ts) ==
    IF ~target.enabled THEN FALSE
    ELSE IF anySitesOnline(ts) /\ ~target.site.online THEN FALSE
    ELSE IF IsLocalOrWireguard(target)
         THEN ~(~TruthyStr(target.ip) \/ ~TruthyNum(target.port)
                \/ ~TruthyStr(target.method))
    ELSE IF IsNewt(target)
         THEN ~(~TruthyNum(target.internalPort) \/ ~TruthyStr(target.method)
                \/ ~TruthyStr(target.site.subnet))
    ELSE TRUE
\* target.site.subnet.split("/")[0]
SubnetIp(target) == Split(Val(target.site.subnet), "/")[1]
\* the .map callback of the HTTP service's servers
HttpServerOf(target) ==
    IF IsLocalOrWireguard(target)
    THEN [url |-> StrTpl(target.method) \o <<":", "/", "/">> \o StrTpl(target.ip)
                  \o S(":") \o NumTpl(target.port)]
    ELSE IF IsNewt(target)
    THEN [url |-> StrTpl(target.method) \o <<":", "/", "/">> \o SubnetIp(target)
                  \o S(":") \o NumTpl(target.internalPort)]
    ELSE Undefined
\* a.findIndex((t) => t && v && t.url === v.url) === i
IsFirstWithUrl(a, i) ==
    /\ a[i] # Undefined
    /\ \A j \in 1..(i - 1) : a[j] = Undefined \/ a[j].url # a[i].url
RECURSIVE FilterFrom(_, _)
FilterFrom(a, i) ==
    IF i > Len(a) THEN <<>>
    ELSE (IF IsFirstWithUrl(a, i) THEN <<a[i]>> ELSE <<>>) \o FilterFrom(a, i + 1)
\* .filter((v, i, a) => a.findIndex(...) === i)
FilterDuplicates(a) == FilterFrom(a, 1)
\* loadBalancer.servers of the HTTP service
HttpServers(ts) ==
    LET kept == SelectSeq(ts, LAMBDA t : HttpServerFilter(t, ts))
    IN  FilterDuplicates([i \in 1..Len(kept) |-> HttpServerOf(kept[i])])
\* the .filter callback of the TCP/UDP service's servers
RawServerFilter(target, ts) ==
    IF ~target.enabled THEN FALSE
    ELSE IF anySitesOnline(ts) /\ ~target.site.online THEN FALSE
    ELSE IF IsLocalOrWireguard(target)
         THEN ~(~TruthyStr(target.ip) \/ ~TruthyNum(target.port))
    ELSE IF IsNewt(target)
         THEN ~(~TruthyNum(target.internalPort) \/ ~TruthyStr(target.site.subnet))
    ELSE TRUE
\* the .map callback of the TCP/UDP service's servers
RawServerOf(target) ==
    IF IsLocalOrWireguard(target)
    THEN [address |-> StrTpl(target.ip) \o S(":") \o NumTpl(target.port)]
    ELSE IF IsNewt(target)
    THEN [address |-> SubnetIp(target) \o S(":") \o NumTpl(target.internalPort)]
    ELSE Undefined
\* loadBalancer.servers of the TCP/UDP service
RawServers(ts) ==
    LET kept == SelectSeq(ts, LAMBDA t : RawServerFilter(t, ts))
    IN  [i \in 1..Len(kept) |-> RawServerOf(kept[i])]

(***************************************************************************)
(* Maintenance decision and maintenance route                              *)
(***************************************************************************)
\* a decision that treats forced mode like automatic mode
showMaintenancePage_ForcedAsAutomatic(resource, hasHealthyServers) ==
    resource.maintenanceModeEnabled
    /\ resource.maintenanceModeType \in {Some(S("forced")), Some(S("automatic"))}
    /\ ~hasHealthyServers
\* a decision that shows the page in automatic mode whatever the targets
showMaintenancePage_AutomaticAsForced(resource, hasHealthyServers) ==
    resource.maintenanceModeEnabled
    /\ resource.maintenanceModeType \in {Some(S("forced")), Some(S("automatic"))}
\* a decision that reads every type other than forced as automatic
showMaintenancePage_DefaultsToAutomatic(resource, hasHealthyServers) ==
    IF resource.maintenanceModeEnabled
    THEN IF resource.maintenanceModeType = Some(S("forced")) THEN TRUE
         ELSE ~hasHealthyServers
    ELSE FALSE
\* let showMaintenancePage
showMaintenancePage(resource, hasHealthyServers) ==
    IF resource.maintenanceModeEnabled
    THEN IF resource.maintenanceModeType = Some(S("forced")) THEN TRUE
         ELSE IF resource.maintenanceModeType = Some(S("automatic"))
              THEN ~hasHealthyServers
         ELSE FALSE
    ELSE FALSE
RECURSIVE TrimStart(_)
TrimStart(s) == IF s # <<>> /\ s[1] = " " THEN TrimStart(Tail(s)) ELSE s
RECURSIVE TrimEnd(_)
TrimEnd(s) ==
    IF s # <<>> /\ s[Len(s)] = " " THEN TrimEnd(SubSeq(s, 1, Len(s) - 1)) ELSE s
\* String.prototype.trim
Trim(s) == TrimEnd(TrimStart(s))
\* the rule Host(<backtick>fullDomain<backtick>)
HostRule(fullDomain) == <<"Host", "(", BT>> \o fullDomain \o <<BT, ")">>
\* resource.preferWildcardCert ?? traefik.prefer_wildcard_cert: the group
\* carries no preferWildcardCert field, so the left side is always undefined
preferWildcardOf(resource) == traefik.prefer_wildcard_cert
\* the tls block of the maintenance branch
MaintenanceTls(resource) ==
    LET fullDomain == Val(resource.fullDomain)
        domainParts == Split(fullDomain, ".")
        wildCard == IF TruthyStr(resource.subdomain)
                    THEN <<"*", ".">> \o Join(Tail(domainParts), S("."))
                    ELSE fullDomain
        trimmed == IF resource.domainCertResolver = Null THEN Null
                   ELSE Some(Trim(Val(resource.domainCertResolver)))
        certResolver == IF TruthyStr(trimmed) THEN trimmed
                        ELSE traefik.cert_resolver
    IN  IF preferWildcardOf(resource)
        THEN [certResolver |-> certResolver, domains |-> <<[main |-> wildCard]>>]
        ELSE [certResolver |-> certResolver]
MaintenancePriority == 2000
DefaultMaintenancePort == 8888
maintenanceRouterName(key) == key \o <<"-", "maintenance", "-", "router">>
maintenanceServiceName(key) == key \o <<"-", "maintenance", "-", "service">>
\* a twin written under another suffix
RedirectName_HttpSuffix(routerName) == routerName \o <<"-", "http">>
\* routerName + "-redirect"
RedirectName(routerName) == routerName \o <<"-", "redirect">>
\* the body of if (showMaintenancePage) { ... continue; }
EmitMaintenance(out, key, resource) ==
    LET serviceName == maintenanceServiceName(key)
        routerName == maintenanceRouterName(key)
        maintenancePort == IF TruthyNum(traefik.maintenance_port)
                           THEN Val(traefik.maintenance_port)
                           ELSE DefaultMaintenancePort
        maintenanceHost == OrStr(traefik.maintenance_host, S("pangolin"))
        rule == HostRule(Val(resource.fullDomain))
        base == [entryPoints |->
                     <<IF resource.ssl THEN traefik.https_entrypoint
                       ELSE traefik.http_entrypoint>>,
                 service |-> serviceName, rule |-> rule,
                 priority |-> MaintenancePriority]
        router == IF resource.ssl THEN Put(base, "tls", MaintenanceTls(resource))
                  ELSE base
        o1 == PutEntry(out, "http", "services", serviceName,
                  [loadBalancer |->
                      [servers |-> <<[url |-> <<"http", ":", "/", "/">>
                                       \o maintenanceHost \o S(":")
                                       \o NumStr(maintenancePort)]>>,
                       passHostHeader |-> TRUE]])
        o2 == PutEntry(o1, "http", "routers", routerName, router)
    IN  IF resource.ssl
        THEN PutEntry(o2, "http", "routers", RedirectName(routerName),
                 [entryPoints |-> <<traefik.http_entrypoint>>,
                  middlewares |-> <<redirectHttpsMiddlewareName>>,
                  service |-> serviceName, rule |-> rule,
                  priority |-> MaintenancePriority])
        ELSE o2

(***************************************************************************)
(* Normal HTTP route                                                       *)
(***************************************************************************)
\* createPathRewriteMiddleware (./middleware): the middleware definitions
\* and, for stripPrefix followed by addPrefix, the chain of their names;
\* an unknown rewrite type throws, and so does the call while rewriteThrows
\* is set (the collaborator fails for a reason of its own)
createPathRewriteMiddleware(name, path, pathMatchType, rewritePath, rewritePathType) ==
    LET addName == <<"addprefix", "-">> \o SubSeq(name, 3, Len(name))
        def(kind) == [kind |-> kind, path |-> path, pathMatchType |-> pathMatchType,
                      rewritePath |-> rewritePath]
    IN  IF rewriteThrows \/ rewritePathType \notin RewritePathTypes
        THEN [threw |-> TRUE, middlewares |-> <<>>, chain |-> Null]
        ELSE IF /\ rewritePathType = S("stripPrefix")
                /\ pathMatchType = S("prefix")
                /\ rewritePath # <<>> /\ rewritePath # S("/")
        THEN [threw |-> FALSE,
              middlewares |-> Put(Put(<<>>, name, def("stripPrefix")),
                                  addName, def("addPrefix")),
              chain |-> Some(<<name, addName>>)]
        ELSE [threw |-> FALSE,
              middlewares |-> Put(<<>>, name,
                                  def(IF rewritePathType = S("stripPrefix")
                                      THEN "stripPrefix" ELSE "replacePathRegex")),
              chain |-> Null]
routerNameOf(key, resource) == key \o S("-") \o resource.name \o <<"-", "router">>
serviceNameOf(key, resource) == key \o S("-") \o resource.name \o <<"-", "service">>
transportNameOf(key) == key \o <<"-", "transport">>
headersMiddlewareNameOf(key) == key \o <<"-", "headers", "-", "middleware">>
rewriteMiddlewareNameOf(key, resource) ==
    <<"rewrite", "-", "r">> \o NumStr(resource.resourceId) \o S("-") \o key
\* the tls block of the normal branch
NormalTls(resource) ==
    LET fullDomain == Val(resource.fullDomain)
        domainParts == Split(fullDomain, ".")
        wild == IF Len(domainParts) <= 2
                THEN <<"*", ".">> \o Join(domainParts, S("."))
                ELSE <<"*", ".">> \o Join(Tail(domainParts), S("."))
        wildCard == IF ~TruthyStr(resource.subdomain) THEN fullDomain ELSE wild
        resolverName == IF TruthyStr(resource.domainCertResolver)
                        THEN Some(Trim(Val(resource.domainCertResolver)))
                        ELSE traefik.cert_resolver
    IN  IF preferWildcardOf(resource)
        THEN [certResolver |-> resolverName, domains |-> <<[main |-> wildCard]>>]
        ELSE [certResolver |-> resolverName]
\* whether the path rewriting middleware is requested
WantsRewrite(resource) ==
    /\ resource.rewritePath # Null
    /\ resource.path # Null
    /\ TruthyStr(resource.pathMatchType)
    /\ TruthyStr(resource.rewritePathType)
RewriteResult(key, resource) ==
    createPathRewriteMiddleware(rewriteMiddlewareNameOf(key, resource),
        Val(resource.path), Val(resource.pathMatchType),
        Val(resource.rewritePath), Val(resource.rewritePathType))
\* JSON.parse(resource.headers), [] when it throws
headersArr(resource) ==
    IF Val(resource.headers).ok THEN Val(resource.headers).pairs ELSE <<>>
RECURSIVE HeadersFrom(_, _)
HeadersFrom(obj, arr) ==
    IF arr = <<>> THEN obj
    ELSE HeadersFrom(Put(obj, Head(arr).name, Head(arr).value), Tail(arr))
\* headersObj
headersObj(resource) ==
    LET fromList == IF resource.headers # Null
                    THEN HeadersFrom(<<>>, headersArr(resource)) ELSE <<>>
    IN  IF TruthyStr(resource.setHostHeader)
        THEN Put(fromList, "Host", Val(resource.setHostHeader))
        ELSE fromList
\* whether the headers middleware is written
HasHeadersMiddleware(resource) ==
    /\ resource.headers # Null \/ TruthyStr(resource.setHostHeader)
    /\ DOMAIN headersObj(resource) # {}
\* a chain that names the rewrite middleware although its creation threw
routerMiddlewares_KeepsRewriteName(key, resource) ==
    LET additional == IF traefik.additional_middlewares = Null THEN <<>>
                      ELSE Val(traefik.additional_middlewares)
        rewrite == IF WantsRewrite(resource)
                   THEN <<rewriteMiddlewareNameOf(key, resource)>>
                   ELSE <<>>
        headers == IF HasHeadersMiddleware(resource)
                   THEN <<headersMiddlewareNameOf(key)>> ELSE <<>>
    IN  <<badgerMiddlewareName>> \o additional \o rewrite \o headers
\* a chain that names the headers middleware whenever the resource has
\* headers or a host header, even when no header is left to set
routerMiddlewares_HeadersAlwaysListed(key, resource) ==
    LET additional == IF traefik.additional_middlewares = Null THEN <<>>
                      ELSE Val(traefik.additional_middlewares)
        rw == RewriteResult(key, resource)
        rewrite == IF WantsRewrite(resource) /\ ~rw.threw
                   THEN IF rw.chain # Null THEN Val(rw.chain)
                        ELSE <<rewriteMiddlewareNameOf(key, resource)>>
                   ELSE <<>>
        headers == IF resource.headers # Null \/ TruthyStr(resource.setHostHeader)
                   THEN <<headersMiddlewareNameOf(key)>> ELSE <<>>
    IN  <<badgerMiddlewareName>> \o additional \o rewrite \o headers
\* a chain that pushes the headers middleware before the rewrite middlewares
routerMiddlewares_HeadersBeforeRewrite(key, resource) ==
    LET additional == IF traefik.additional_middlewares = Null THEN <<>>
                      ELSE Val(traefik.additional_middlewares)
        rw == RewriteResult(key, resource)
        rewrite == IF WantsRewrite(resource) /\ ~rw.threw
                   THEN IF rw.chain # Null THEN Val(rw.chain)
                        ELSE <<rewriteMiddlewareNameOf(key, resource)>>
                   ELSE <<>>
        headers == IF HasHeadersMiddleware(resource)
                   THEN <<headersMiddlewareNameOf(key)>> ELSE <<>>
    IN  <<badgerMiddlewareName>> \o additional \o headers \o rewrite
\* routerMiddlewares as they stand when the router is written
routerMiddlewares(key, resource) ==
    LET additional == IF traefik.additional_middlewares = Null THEN <<>>
                      ELSE Val(traefik.additional_middlewares)
        rw == RewriteResult(key, resource)
        rewrite == IF WantsRewrite(resource) /\ ~rw.threw
                   THEN IF rw.chain # Null THEN Val(rw.chain)
                        ELSE <<rewriteMiddlewareNameOf(key, resource)>>
                   ELSE <<>>
        headers == IF HasHeadersMiddleware(resource)
                   THEN <<headersMiddlewareNameOf(key)>> ELSE <<>>
    IN  <<badgerMiddlewareName>> \o additional \o rewrite \o headers
\* a priority logic that adds the path bonus on top of a declared priority
priorityOf_BonusOnOverride(resource) ==
    (IF resource.priority # 0 THEN resource.priority ELSE 100)
    + (IF TruthyStr(resource.path) /\ TruthyStr(resource.pathMatchType)
       THEN 10 + (IF Val(resource.pathMatchType) = S("exact") THEN 5
                  ELSE IF Val(resource.pathMatchType) = S("prefix") THEN 3
                  ELSE IF Val(resource.pathMatchType) = S("regex") THEN 2
                  ELSE 0)
       ELSE 0)
\* a priority logic without the bonus of the match type
priorityOf_NoTypeBonus(resource) ==
    IF resource.priority # 0 /\ resource.priority # 100
    THEN resource.priority
    ELSE IF TruthyStr(resource.path) /\ TruthyStr(resource.pathMatchType)
         THEN IF Val(resource.path) = S("/") THEN 1 ELSE 100 + 10
         ELSE 100
\* a priority logic without the catch-all rule of the path "/"
priorityOf_NoCatchAll(resource) ==
    IF resource.priority # 0 /\ resource.priority # 100
    THEN resource.priority
    ELSE IF TruthyStr(resource.path) /\ TruthyStr(resource.pathMatchType)
         THEN 100 + 10
              + (IF Val(resource.pathMatchType) = S("exact") THEN 5
                 ELSE IF Val(resource.pathMatchType) = S("prefix") THEN 3
                 ELSE IF Val(resource.pathMatchType) = S("regex") THEN 2
                 ELSE 0)
         ELSE 100
\* priority logic
priorityOf(resource) ==
    IF resource.priority # 0 /\ resource.priority # 100
    THEN resource.priority
    ELSE IF TruthyStr(resource.path) /\ TruthyStr(resource.pathMatchType)
         THEN IF Val(resource.path) = S("/") THEN 1
              ELSE 100 + 10
                   + (IF Val(resource.pathMatchType) = S("exact") THEN 5
                      ELSE IF Val(resource.pathMatchType) = S("prefix") THEN 3
                      ELSE IF Val(resource.pathMatchType) = S("regex") THEN 2
                      ELSE 0)
         ELSE 100
\* the routing rule
ruleOf(resource) ==
    LET host == HostRule(Val(resource.fullDomain))
        raw == Val(resource.path)
        path == IF ~StartsWith(raw, "/") THEN S("/") \o raw ELSE raw
        mt == Val(resource.pathMatchType)
    IN  IF TruthyStr(resource.path) /\ TruthyStr(resource.pathMatchType)
        THEN IF mt = S("exact")
             THEN host \o <<" ", "&&", " ", "Path", "(", BT>> \o path \o <<BT, ")">>
             ELSE IF mt = S("prefix")
             THEN host \o <<" ", "&&", " ", "PathPrefix", "(", BT>> \o path \o <<BT, ")">>
             ELSE IF mt = S("regex")
             THEN host \o <<" ", "&&", " ", "PathRegexp", "(", BT>> \o raw \o <<BT, ")">>
             ELSE host
        ELSE host

\* the normal HTTP branch, from the tls block to the serversTransport
EmitNormal(out, key, resource) ==
    LET routerName == routerNameOf(key, resource)
        serviceName == serviceNameOf(key, resource)
        rw == RewriteResult(key, resource)
        o1 == IF WantsRewrite(resource) /\ ~rw.threw
              THEN Put(out, "http",
                       Put(out["http"], "middlewares",
                           Assign(Section(out, "http", "middlewares"),
                                  rw.middlewares)))
              ELSE out
        o2 == IF HasHeadersMiddleware(resource)
              THEN PutEntry(o1, "http", "middlewares", headersMiddlewareNameOf(key),
                       [headers |-> [customRequestHeaders |-> headersObj(resource)]])
              ELSE o1
        rule == ruleOf(resource)
        priority == priorityOf(resource)
        base == [entryPoints |->
                     <<IF resource.ssl THEN traefik.https_entrypoint
                       ELSE traefik.http_entrypoint>>,
                 middlewares |-> routerMiddlewares(key, resource),
                 service |-> serviceName, rule |-> rule, priority |-> priority]
        router == IF resource.ssl THEN Put(base, "tls", NormalTls(resource))
                  ELSE base
        o3 == PutEntry(o2, "http", "routers", routerName, router)
        o4 == IF resource.ssl
              THEN PutEntry(o3, "http", "routers", RedirectName(routerName),
                       [entryPoints |-> <<traefik.http_entrypoint>>,
                        middlewares |-> <<redirectHttpsMiddlewareName>>,
                        service |-> serviceName, rule |-> rule,
                        priority |-> priority])
              ELSE o3
        lb0 == [servers |-> HttpServers(resource.targets)]
        lb1 == IF resource.stickySession
               THEN Put(lb0, "sticky",
                        [cookie |-> [name |-> "p_sticky", secure |-> resource.ssl,
                                     httpOnly |-> TRUE]])
               ELSE lb0
    IN  IF TruthyStr(resource.tlsServerName)
        THEN PutEntry(
                 PutEntry(o4, "http", "services", serviceName,
                     [loadBalancer |->
                         Put(lb1, "serversTransport", transportNameOf(key))]),
                 "http", "serversTransports", transportNameOf(key),
                 [serverName |-> Val(resource.tlsServerName),
                  insecureSkipVerify |-> TRUE])
        ELSE PutEntry(o4, "http", "services", serviceName, [loadBalancer |-> lb1])
\* the HTTP branch without the continue that ends the maintenance branch
EmitHttp_NoContinue(out, key, resource) ==
    IF ~TruthyStr(resource.domainId) \/ ~TruthyStr(resource.fullDomain) THEN out
    ELSE LET o1 == InitSection(InitSection(out, "http", "routers"),
                               "http", "services")
             hasHealthyServers == Len(availableServers(resource.targets)) > 0
         IN  IF showMaintenancePage(resource, hasHealthyServers)
             THEN EmitNormal(EmitMaintenance(o1, key, resource), key, resource)
             ELSE EmitNormal(o1, key, resource)
\* if (resource.http) { ... }
\* the HTTP branch without the test of domainId
EmitHttp_WithoutDomainIdCheck(out, key, resource) ==
    IF ~TruthyStr(resource.fullDomain) THEN out
    ELSE LET o1 == InitSection(InitSection(out, "http", "routers"),
                               "http", "services")
             hasHealthyServers == Len(availableServers(resource.targets)) > 0
         IN  IF showMaintenancePage(resource, hasHealthyServers)
             THEN EmitMaintenance(o1, key, resource)
             ELSE EmitNormal(o1, key, resource)
EmitHttp(out, key, resource) ==
    IF ~TruthyStr(resource.domainId) \/ ~TruthyStr(resource.fullDomain) THEN out
    ELSE LET o1 == InitSection(InitSection(out, "http", "routers"),
                               "http", "services")
             hasHealthyServers == Len(availableServers(resource.targets)) > 0
         IN  IF showMaintenancePage(resource, hasHealthyServers)
             THEN EmitMaintenance(o1, key, resource)
             ELSE EmitNormal(o1, key, resource)

(***************************************************************************)
(* Non-HTTP (TCP/UDP) route                                                *)
(***************************************************************************)
\* String.prototype.toLowerCase on the protocol column
toLowerCase(s) ==
    IF s = S("TCP") THEN S("tcp") ELSE IF s = S("UDP") THEN S("udp") ELSE s
\* else { ... }
EmitRaw(out, key, resource) ==
    IF ~resource.enableProxy \/ ~TruthyNum(resource.proxyPort) THEN out
    ELSE LET protocol == toLowerCase(resource.protocol)
             fam == protocol[1]
             port == Val(resource.proxyPort)
             routerName == routerNameOf(key, resource)
             serviceName == serviceNameOf(key, resource)
             o1 == IF HasFamily(out, fam) THEN out
                   ELSE Put(out, fam, [routers |-> <<>>, services |-> <<>>])
             base == [entryPoints |-> <<protocol \o S("-") \o NumStr(port)>>,
                      service |-> serviceName]
             router == IF protocol = S("tcp")
                       THEN Put(base, "rule", <<"HostSNI", "(", BT, "*", BT, ")">>)
                       ELSE base
             o2 == PutEntry(o1, fam, "routers", routerName, router)
             lb0 == [servers |-> RawServers(resource.targets)]
             lb1 == IF resource.proxyProtocol /\ protocol = S("tcp")
                    THEN Put(lb0, "serversTransport",
                             traefik.pp_transport_prefix
                             \o NumStr(IF resource.proxyProtocolVersion # 0
                                       THEN resource.proxyProtocolVersion ELSE 1)
                             \o <<"@", "file">>)
                    ELSE lb0
             lb2 == IF resource.stickySession
                    THEN Put(lb1, "sticky",
                             [ipStrategy |-> [depth |-> 0, sourcePort |-> TRUE]])
                    ELSE lb1
         IN  PutEntry(o2, fam, "services", serviceName, [loadBalancer |-> lb2])

(***************************************************************************)
(* Document assembly                                                       *)
(***************************************************************************)
\* a loop body that writes nothing for a non-HTTP group in maintenance
EmitGroup_RawHonoursMaintenance(out, key, resource) ==
    IF ~resource.enabled THEN out
    ELSE IF TruthyBool(resource.http) THEN EmitHttp(out, key, resource)
    ELSE IF resource.maintenanceModeEnabled THEN out
    ELSE EmitRaw(out, key, resource)
\* the body of the for loop over resourcesMap.entries()
EmitGroup(out, key, resource) ==
    IF ~resource.enabled THEN out
    ELSE IF TruthyBool(resource.http) THEN EmitHttp(out, key, resource)
    ELSE EmitRaw(out, key, resource)
\* config_output as it is created
InitialConfigOutput ==
    [http |-> [middlewares |->
        Put(<<>>, redirectHttpsMiddlewareName,
            [redirectScheme |-> [scheme |-> "https"]])]]
RECURSIVE EmitGroups(_, _, _)
EmitGroups(out, m, keys) ==
    IF keys = <<>> THEN out
    ELSE EmitGroups(EmitGroup(out, Head(keys), m.get[Head(keys)]), m, Tail(keys))
\* an assembly without the test of resourcesMap.size
configOf_WithoutSizeCheck(rs) ==
    LET resourcesMap == resourcesMapOf(rs)
    IN  EmitGroups(InitialConfigOutput, resourcesMap, resourcesMap.keys)
\* the document built from the rows read
configOf(rs) ==
    LET resourcesMap == resourcesMapOf(rs)
    IN  IF Len(resourcesMap.keys) = 0 THEN <<>>
        ELSE EmitGroups(InitialConfigOutput, resourcesMap, resourcesMap.keys)

(***************************************************************************)
(* The calls.  A caller (a data plane polling for its configuration) calls *)
(* getTraefikConfig with its arguments args[c]; the call suspends once, at *)
(* the awaited read, and then runs to completion.  rows[c] is what the     *)
(* caller's last read returned and doc[c] the document it last received.   *)
(***************************************************************************)
Callers == DOMAIN pc
\* the call up to its await: the query is issued
Invoke(c) ==
    /\ pc[c] \in {"idle", "returned"}
    /\ pc' = [pc EXCEPT ![c] = "awaiting"]
    /\ UNCHANGED <<tables, traefik, rewriteThrows, args, rows, doc, prev>>
\* a call whose config_output is one object of the module, shared by the
\* calls: it is filled on top of what another call has left in it
Resume_SharedOutput(c) ==
    /\ pc[c] = "awaiting"
    /\ LET rs == resourcesWithTargetsAndSites(args[c])
           resourcesMap == resourcesMapOf(rs)
           left == {d \in Callers \ {c} : doc[d] # <<>>}
           out0 == IF left = {} THEN InitialConfigOutput
                   ELSE doc[CHOOSE d \in left : TRUE]
       IN  /\ rows' = [rows EXCEPT ![c] = rs]
           /\ doc' = [doc EXCEPT ![c] =
                        IF Len(resourcesMap.keys) = 0 THEN <<>>
                        ELSE EmitGroups(out0, resourcesMap, resourcesMap.keys)]
    /\ prev' = [prev EXCEPT ![c] = doc[c]]
    /\ pc' = [pc EXCEPT ![c] = "returned"]
    /\ UNCHANGED <<tables, traefik, rewriteThrows, args>>
\* the call from its await to its return: the rows are read as the tables
\* stand, grouped, and the document is assembled and returned
Resume(c) ==
    /\ pc[c] = "awaiting"
    /\ LET rs == resourcesWithTargetsAndSites(args[c])
       IN  /\ rows' = [rows EXCEPT ![c] = rs]
           /\ doc' = [doc EXCEPT ![c] = configOf(rs)]
    /\ prev' = [prev EXCEPT ![c] = doc[c]]
    /\ pc' = [pc EXCEPT ![c] = "returned"]
    /\ UNCHANGED <<tables, traefik, rewriteThrows, args>>
Next ==
    \/ \E c \in Callers : Invoke(c)
    \/ \E c \in Callers : Resume(c)

(***************************************************************************)
(* Initial states: the tables an installation can hold                     *)
(***************************************************************************)
\* a bound: the largest number of targets of the resource
MaxTargets == 2
SiteTypes == {S("local"), S("wireguard"), S("newt")}
Ip1 == S("10.0.0.5")
Subnet1 == <<"100.89.128.0", "/", "30">>
Subnet2 == <<"100.89.128.4", "/", "30">>
DefaultArgs ==
    [exitNodeId |-> 1, siteTypes |-> SiteTypes,
     filterOutNamespaceDomains |-> FALSE, generateLoginPageRouters |-> FALSE,
     allowRawResources |-> TRUE]
DefaultTraefik ==
    [cert_resolver |-> Some(S("letsencrypt")), prefer_wildcard_cert |-> FALSE,
     http_entrypoint |-> S("web"), https_entrypoint |-> S("websecure"),
     maintenance_port |-> Null, maintenance_host |-> Null,
     additional_middlewares |-> Null, pp_transport_prefix |-> S("pp-transport-v")]
\* an HTTP resource with every optional feature of the normal route in use
HttpResource ==
    [resourceId |-> 1, name |-> <<"my", " ", "app">>,
     fullDomain |-> Some(<<"app", ".", "example", ".", "com">>),
     ssl |-> TRUE, http |-> Some(TRUE), proxyPort |-> Null,
     protocol |-> S("tcp"), subdomain |-> Some(S("app")),
     domainId |-> Some(S("domain1")), enabled |-> TRUE,
     stickySession |-> FALSE, tlsServerName |-> Some(S("backend")),
     setHostHeader |-> Some(S("internal")), enableProxy |-> TRUE,
     headers |-> Null, proxyProtocol |-> FALSE, proxyProtocolVersion |-> Null,
     maintenanceModeEnabled |-> FALSE, maintenanceModeType |-> Null,
     maintenanceTitle |-> Null, maintenanceMessage |-> Null,
     maintenanceEstimatedTime |-> Null]
\* a TCP or UDP resource
RawResource(protocol) ==
    [HttpResource EXCEPT !.http = Some(FALSE), !.proxyPort = Some(5432),
                         !.protocol = protocol, !.fullDomain = Null,
                         !.domainId = Null, !.subdomain = Null,
                         !.tlsServerName = Null, !.setHostHeader = Null]
\* a target, its site and its health record, as one profile
Profile0 ==
    [enabled |-> TRUE, ip |-> Some(Ip1), method |-> Some(S("http")),
     port |-> Some(8080), internalPort |-> Some(3000), path |-> Null,
     pathMatchType |-> Null, rewritePath |-> Null, rewritePathType |-> Null,
     priority |-> 100, type |-> S("local"), online |-> TRUE, subnet |-> Null,
     exitNodeId |-> Some(1), hcHealth |-> Null]
MkTarget(i, p) ==
    [targetId |-> i, resourceId |-> 1, siteId |-> i, enabled |-> p.enabled,
     ip |-> p.ip, method |-> p.method, port |-> p.port,
     internalPort |-> p.internalPort, path |-> p.path,
     pathMatchType |-> p.pathMatchType, rewritePath |-> p.rewritePath,
     rewritePathType |-> p.rewritePathType, priority |-> p.priority]
MkSite(i, p) ==
    [siteId |-> i, type |-> p.type, online |-> p.online, subnet |-> p.subnet,
     exitNodeId |-> p.exitNodeId]
\* the initial states with one resource of rs, up to MaxTargets targets (the
\* first drawn from p1, the second from p2, the others from more), each on
\* a site of its own, arguments of as and configuration of ts
InitWith(rs, p1, p2, more, as, ts) ==
    /\ \E r \in rs : resources = {r}
    /\ \E n \in 1..MaxTargets :
         \E a \in p1 : \E b \in (IF n >= 2 THEN p2 ELSE {a}) :
         \E rest \in [3..n -> more] :
         LET f == [i \in 1..n |->
                     IF i = 1 THEN a ELSE IF i = 2 THEN b ELSE rest[i]]
         IN
            /\ targets = {MkTarget(i, f[i]) : i \in 1..n}
            /\ sites = {MkSite(i, f[i]) : i \in 1..n}
            /\ targetHealthCheck =
                   {[targetId |-> i, hcHealth |-> f[i].hcHealth] :
                        i \in {j \in 1..n : f[j].hcHealth # Null}}
    /\ domains = {[domainId |-> S("domain1"), certResolver |-> Null]}
    /\ traefik \in ts
    /\ args \in [{1} -> as]
    /\ pc = [c \in {1} |-> "idle"]
    /\ rows = [c \in {1} |-> <<>>]
    /\ doc = [c \in {1} |-> <<>>]
    /\ prev = [c \in {1} |-> <<>>]

\* resources in every maintenance setting: HTTP with and without SSL, TCP, UDP
MaintenanceResources ==
    {[r EXCEPT !.maintenanceModeEnabled = en, !.maintenanceModeType = ty] :
        r \in {HttpResource, [HttpResource EXCEPT !.ssl = FALSE],
               RawResource(S("tcp")), RawResource(S("udp"))},
        en \in BOOLEAN,
        ty \in {Null, Some(S("forced")), Some(S("automatic"))}}
\* targets that differ in health, enablement, completeness and site state
MaintenanceProfiles ==
    {[Profile0 EXCEPT !.enabled = en, !.hcHealth = h, !.method = m, !.online = on] :
        en \in BOOLEAN, on \in BOOLEAN, m \in {Null, Some(S("http"))},
        h \in {Null, Some(S("healthy")), Some(S("unhealthy"))}}
\* the same targets with a path and a rewrite, which form a group of their own
RewriteProfiles ==
    {[p EXCEPT !.path = Some(<<"/", "api">>), !.pathMatchType = Some(S("prefix")),
               !.rewritePath = Some(<<"/", "v2">>),
               !.rewritePathType = Some(S("prefix"))] : p \in MaintenanceProfiles}
MoreProfiles ==
    {Profile0, [Profile0 EXCEPT !.hcHealth = Some(S("unhealthy"))]}
Init ==
    /\ InitWith(MaintenanceResources, MaintenanceProfiles \cup RewriteProfiles,
                MaintenanceProfiles, MoreProfiles, {DefaultArgs}, {DefaultTraefik})
    /\ rewriteThrows = FALSE
Spec == Init /\ [][Next]_vars


\* HTTP, TCP and UDP resources outside maintenance
ServerResources ==
    {[HttpResource EXCEPT !.tlsServerName = Null, !.setHostHeader = Null],
     RawResource(S("tcp")), RawResource(S("udp"))}
\* every combination of enabled flag, site type, online flag and present or
\* missing ip, port, method, internalPort and subnet
ServerProfiles ==
    {[Profile0 EXCEPT !.enabled = en, !.type = ty, !.online = on, !.ip = ip,
                      !.port = po, !.method = me, !.internalPort = ip2,
                      !.subnet = sn] :
        en \in BOOLEAN, ty \in SiteTypes, on \in BOOLEAN,
        ip \in {Null, Some(Ip1)}, po \in {Null, Some(8080)},
        me \in {Null, Some(S("http"))}, ip2 \in {Null, Some(3000)},
        sn \in {Null, Some(Subnet1)}}
\* a second target: the same or another endpoint, offline, incomplete (with
\* an empty ip, a port 0), on a newt site
OtherProfiles ==
    {Profile0,
     [Profile0 EXCEPT !.online = FALSE],
     [Profile0 EXCEPT !.port = Some(8081)],
     [Profile0 EXCEPT !.port = Some(8081), !.online = FALSE],
     [Profile0 EXCEPT !.ip = Some(<<>>)],
     [Profile0 EXCEPT !.port = Some(0), !.online = FALSE],
     [Profile0 EXCEPT !.type = S("newt"), !.subnet = Some(Subnet2)],
     [Profile0 EXCEPT !.type = S("newt"), !.subnet = Some(Subnet2),
                      !.online = FALSE],
     [Profile0 EXCEPT !.type = S("newt")],
     [Profile0 EXCEPT !.type = S("wireguard"), !.method = Null, !.online = FALSE]}
InitServers ==
    /\ InitWith(ServerResources, ServerProfiles, OtherProfiles, MoreProfiles,
                {DefaultArgs}, {DefaultTraefik})
    /\ rewriteThrows = FALSE
SpecServers == InitServers /\ [][Next]_vars


\* targets that differ in path, match type and priority
PriorityProfiles ==
    {[Profile0 EXCEPT !.path = pa, !.pathMatchType = mt, !.priority = pr] :
        pa \in {Null, Some(S("/")), Some(<<"/", "api">>), Some(S("api"))},
        mt \in {Null, Some(S("exact")), Some(S("prefix")), Some(S("regex"))},
        pr \in {100, 0, 50, 3000}}
InitPriority ==
    /\ InitWith({HttpResource}, PriorityProfiles, PriorityProfiles, MoreProfiles,
                {DefaultArgs}, {DefaultTraefik})
    /\ rewriteThrows = FALSE
SpecPriority == InitPriority /\ [][Next]_vars


(***************************************************************************)
(* The tables change between the calls of a polling caller                 *)
(***************************************************************************)
\* the form of the resource's general settings is saved: the maintenance
\* switch and the maintenance mode are written to the resource
onSubmit(r, data) ==
    /\ r \in resources
    /\ LET r2 == [r EXCEPT
                    !.maintenanceModeEnabled = data.maintenanceModeEnabled,
                    !.maintenanceModeType = Some(data.maintenanceModeType)]
       IN  /\ r2 # r
           /\ resources' = (resources \ {r}) \cup {r2}
    /\ UNCHANGED <<targets, sites, targetHealthCheck, domains, traefik,
                   rewriteThrows, args, pc, rows, doc, prev>>
\* targets.method is set or cleared
UpdateTargetMethod(t, m) ==
    /\ t \in targets /\ m # t.method
    /\ targets' = (targets \ {t}) \cup {[t EXCEPT !.method = m]}
    /\ UNCHANGED <<resources, sites, targetHealthCheck, domains, traefik,
                   rewriteThrows, args, pc, rows, doc, prev>>
\* sites.online follows the site's connection
SetSiteOnline(s, b) ==
    /\ s \in sites /\ b # s.online
    /\ sites' = (sites \ {s}) \cup {[s EXCEPT !.online = b]}
    /\ UNCHANGED <<resources, targets, targetHealthCheck, domains, traefik,
                   rewriteThrows, args, pc, rows, doc, prev>>
\* targetHealthCheck.hcHealth takes the result of a health check
HealthCheckResult(t, h) ==
    /\ t \in targets /\ HcHealthOf(t) # Some(h)
    /\ targetHealthCheck' =
           {x \in targetHealthCheck : x.targetId # t.targetId}
           \cup {[targetId |-> t.targetId, hcHealth |-> Some(h)]}
    /\ UNCHANGED <<resources, targets, sites, domains, traefik,
                   rewriteThrows, args, pc, rows, doc, prev>>
NextFlap ==
    \/ \E c \in Callers : Invoke(c)
    \/ \E c \in Callers : Resume(c)
    \/ \E r \in resources :
         \E data \in [maintenanceModeEnabled : BOOLEAN,
                      maintenanceModeType : {S("automatic")}] :
            onSubmit(r, data)
    \/ \E t \in targets : \E m \in {Null, Some(S("http"))} :
         UpdateTargetMethod(t, m)
    \/ \E s \in sites : \E b \in BOOLEAN : SetSiteOnline(s, b)
    \/ \E t \in targets : \E h \in {S("healthy"), S("unhealthy")} :
         HealthCheckResult(t, h)
\* one HTTP resource in automatic maintenance mode, a target on a local site
\* and a target on a newt site
InitFlap ==
    /\ resources = {[HttpResource EXCEPT
                       !.maintenanceModeEnabled = TRUE,
                       !.maintenanceModeType = Some(S("automatic"))]}
    /\ targets = {MkTarget(1, Profile0), MkTarget(2, Profile0)}
    /\ sites = {MkSite(1, Profile0),
                MkSite(2, [Profile0 EXCEPT !.type = S("newt"),
                                           !.subnet = Some(Subnet1)])}
    /\ targetHealthCheck = {[targetId |-> i, hcHealth |-> Some(S("healthy"))] :
                                i \in {1, 2}}
    /\ domains = {[domainId |-> S("domain1"), certResolver |-> Null]}
    /\ traefik = DefaultTraefik
    /\ args = [c \in {1} |-> DefaultArgs]
    /\ pc = [c \in {1} |-> "idle"]
    /\ rows = [c \in {1} |-> <<>>]
    /\ doc = [c \in {1} |-> <<>>]
    /\ prev = [c \in {1} |-> <<>>]
    /\ rewriteThrows = FALSE
SpecFlap == InitFlap /\ [][NextFlap]_vars


(***************************************************************************)
(* Health records come and go between the calls                            *)
(***************************************************************************)
\* the health record of a target is removed: its hcHealth reads as null
HealthRecordRemoved(t) ==
    /\ t \in targets /\ HcHealthOf(t) # Null
    /\ targetHealthCheck' = {x \in targetHealthCheck : x.targetId # t.targetId}
    /\ UNCHANGED <<resources, targets, sites, domains, traefik,
                   rewriteThrows, args, pc, rows, doc, prev>>
\* between the calls, a target without health record is recorded healthy, or
\* the record of a healthy target is removed; nothing else changes
NextHealth ==
    \/ \E c \in Callers : Invoke(c)
    \/ \E c \in Callers : Resume(c)
    \/ \E t \in targets :
         HcHealthOf(t) = Null /\ HealthCheckResult(t, S("healthy"))
    \/ \E t \in targets :
         HcHealthOf(t) = Some(S("healthy")) /\ HealthRecordRemoved(t)
\* an HTTP resource, one in automatic maintenance mode, a TCP resource
HealthResources ==
    {HttpResource,
     [HttpResource EXCEPT !.maintenanceModeEnabled = TRUE,
                          !.maintenanceModeType = Some(S("automatic"))],
     RawResource(S("tcp"))}
\* targets without health record, healthy and unhealthy
HealthProfiles ==
    {[Profile0 EXCEPT !.hcHealth = h, !.port = Some(po)] :
        h \in {Null, Some(S("healthy")), Some(S("unhealthy"))},
        po \in {8080, 8081}}
InitHealth ==
    /\ InitWith(HealthResources, HealthProfiles, HealthProfiles, MoreProfiles,
                {DefaultArgs}, {DefaultTraefik})
    /\ rewriteThrows = FALSE
SpecHealth == InitHealth /\ [][NextHealth]_vars


(***************************************************************************)
(* Two resources, complete or lacking a field required for emission        *)
(***************************************************************************)
\* the resource id as HTTP and as TCP resource, complete, without domain,
\* without full domain, with the proxy disabled, without proxy port, disabled
SkipResources(id) ==
    {[r EXCEPT !.resourceId = id] :
        r \in {HttpResource,
               [HttpResource EXCEPT !.domainId = Null],
               [HttpResource EXCEPT !.fullDomain = Null],
               [HttpResource EXCEPT !.fullDomain = Some(<<>>)],
               [HttpResource EXCEPT !.enabled = FALSE],
               RawResource(S("tcp")),
               [RawResource(S("tcp")) EXCEPT !.enableProxy = FALSE],
               [RawResource(S("tcp")) EXCEPT !.proxyPort = Null],
               [RawResource(S("udp")) EXCEPT !.proxyPort = Some(0)]}}
SkipProfiles ==
    {Profile0, [Profile0 EXCEPT !.port = Some(8081)],
     [Profile0 EXCEPT !.enabled = FALSE],
     [Profile0 EXCEPT !.hcHealth = Some(S("unhealthy"))]}
\* resources 1 and 2; target i belongs to resource 1 when i is odd and to
\* resource 2 when i is even
InitSkip ==
    /\ \E r1 \in SkipResources(1) : \E r2 \in SkipResources(2) :
         resources = {r1, r2}
    /\ \E n \in 1..MaxTargets : \E f \in [1..n -> SkipProfiles] :
         /\ targets = {[MkTarget(i, f[i]) EXCEPT !.resourceId = 2 - (i % 2)] :
                          i \in 1..n}
         /\ sites = {MkSite(i, f[i]) : i \in 1..n}
         /\ targetHealthCheck =
                {[targetId |-> i, hcHealth |-> f[i].hcHealth] :
                     i \in {j \in 1..n : f[j].hcHealth # Null}}
    /\ domains = {[domainId |-> S("domain1"), certResolver |-> Null]}
    /\ traefik = DefaultTraefik
    /\ args = [c \in {1} |-> DefaultArgs]
    /\ pc = [c \in {1} |-> "idle"]
    /\ rows = [c \in {1} |-> <<>>]
    /\ doc = [c \in {1} |-> <<>>]
    /\ prev = [c \in {1} |-> <<>>]
    /\ rewriteThrows = FALSE
SpecSkip == InitSkip /\ [][Next]_vars


(***************************************************************************)
(* Two callers whose calls interleave at the awaited read                  *)
(***************************************************************************)
\* targets on sites of exit node 1 and of exit node 2, with and without path
ConcurrentProfiles ==
    {[Profile0 EXCEPT !.exitNodeId = Some(e), !.path = pm[1],
                      !.pathMatchType = pm[2]] :
        e \in {1, 2},
        pm \in {<<Null, Null>>, <<Some(<<"/", "api">>), Some(S("prefix"))>>}}
\* the second caller asks for exit node 1 or 2
InitConcurrent ==
    /\ resources \in {{HttpResource}, {RawResource(S("tcp"))}}
    /\ \E a \in ConcurrentProfiles : \E b \in ConcurrentProfiles :
         /\ targets = {MkTarget(1, a), MkTarget(2, b)}
         /\ sites = {MkSite(1, a), MkSite(2, b)}
    /\ targetHealthCheck = {}
    /\ domains = {[domainId |-> S("domain1"), certResolver |-> Null]}
    /\ traefik = DefaultTraefik
    /\ \E e \in {1, 2} :
         args = (1 :> DefaultArgs) @@ (2 :> [DefaultArgs EXCEPT !.exitNodeId = e])
    /\ pc = [c \in {1, 2} |-> "idle"]
    /\ rows = [c \in {1, 2} |-> <<>>]
    /\ doc = [c \in {1, 2} |-> <<>>]
    /\ prev = [c \in {1, 2} |-> <<>>]
    /\ rewriteThrows = FALSE
\* the calls of the two callers interleave, and sites go on and off line
NextConcurrent ==
    \/ \E c \in Callers : Invoke(c)
    \/ \E c \in Callers : Resume(c)
    \/ \E s \in sites : \E b \in BOOLEAN : SetSiteOnline(s, b)
SpecConcurrent == InitConcurrent /\ [][NextConcurrent]_vars


(***************************************************************************)
(* Rows the where clause must drop                                         *)
(***************************************************************************)
\* targets enabled or not, healthy or not, on local and newt sites of exit
\* node 1, of exit node 2 and of none; each target has ports of its own
FilterProfiles(port, internalPort) ==
    {[Profile0 EXCEPT !.enabled = en, !.hcHealth = h, !.type = ty,
                      !.exitNodeId = e, !.subnet = Some(Subnet1),
                      !.port = Some(port), !.internalPort = Some(internalPort)] :
        en \in BOOLEAN, h \in {Some(S("healthy")), Some(S("unhealthy"))},
        ty \in {S("local"), S("newt")}, e \in {Null, Some(1), Some(2)}}
FilterResources ==
    {[HttpResource EXCEPT !.tlsServerName = Null, !.setHostHeader = Null],
     [HttpResource EXCEPT !.enabled = FALSE], RawResource(S("tcp"))}
\* the caller asks for all site types, for newt alone or for local alone
FilterArgs ==
    {[DefaultArgs EXCEPT !.siteTypes = st] :
        st \in {SiteTypes, {S("newt")}, {S("local")}}}
InitFilter ==
    /\ InitWith(FilterResources, FilterProfiles(8080, 3000),
                FilterProfiles(8081, 3001),
                {[Profile0 EXCEPT !.port = Some(8082), !.hcHealth = h] :
                    h \in {Null, Some(S("unhealthy"))}},
                FilterArgs, {DefaultTraefik})
    /\ rewriteThrows = FALSE
SpecFilter == InitFilter /\ [][Next]_vars


(***************************************************************************)
(* Path and rewrite settings, valid and invalid, and a failing collaborator *)
(***************************************************************************)
\* path, pathMatchType, rewritePath, rewritePathType: none, a path alone,
\* rewrites of the three shapes, a rewrite without path, an unknown rewrite
\* type, an unknown match type
RewriteCombos ==
    {<<Null, Null, Null, Null>>,
     <<Some(<<"/", "api">>), Some(S("prefix")), Null, Null>>,
     <<Some(<<"/", "api">>), Some(S("prefix")), Some(<<"/", "v2">>), Some(S("prefix"))>>,
     <<Some(<<"/", "api">>), Some(S("prefix")), Some(<<"/", "v2">>),
       Some(S("stripPrefix"))>>,
     <<Null, Null, Some(<<"/", "v2">>), Some(S("prefix"))>>,
     <<Some(<<"/", "api">>), Some(S("prefix")), Some(<<"/", "v2">>), Some(S("bogus"))>>,
     <<Some(<<"/", "api">>), Some(S("bogus")), Some(<<"/", "v2">>), Some(S("prefix"))>>}
ComboProfiles(port) ==
    {[Profile0 EXCEPT !.path = x[1], !.pathMatchType = x[2],
                      !.rewritePath = x[3], !.rewritePathType = x[4],
                      !.port = Some(port)] : x \in RewriteCombos}
\* the collaborator does not fail
InitValidation ==
    /\ InitWith({HttpResource, [HttpResource EXCEPT !.ssl = FALSE]},
                ComboProfiles(8080), ComboProfiles(8081), ComboProfiles(8082),
                {DefaultArgs}, {DefaultTraefik})
    /\ rewriteThrows = FALSE
SpecValidation == InitValidation /\ [][Next]_vars
\* the collaborator fails or not
InitRewrite ==
    /\ InitWith({HttpResource, [HttpResource EXCEPT !.ssl = FALSE]},
                ComboProfiles(8080), ComboProfiles(8081), ComboProfiles(8082),
                {DefaultArgs}, {DefaultTraefik})
    /\ rewriteThrows \in BOOLEAN
\* the collaborator starts or stops failing
SetRewriteThrows(b) ==
    /\ b # rewriteThrows
    /\ rewriteThrows' = b
    /\ UNCHANGED <<tables, traefik, args, pc, rows, doc, prev>>
NextRewrite ==
    \/ \E c \in Callers : Invoke(c)
    \/ \E c \in Callers : Resume(c)
    \/ \E b \in BOOLEAN : SetRewriteThrows(b)
SpecRewrite == InitRewrite /\ [][NextRewrite]_vars


(***************************************************************************)
(* A maintenance router and normal routers in one document                 *)
(***************************************************************************)
\* the first target has no path and is complete or not; the second has a
\* path or not and a declared priority around the maintenance priority
PrecedenceProfiles ==
    {[Profile0 EXCEPT !.path = pa, !.pathMatchType = mt, !.priority = pr,
                      !.port = Some(8081)] :
        pa \in {Null, Some(<<"/", "api">>)},
        mt \in {Null, Some(S("exact")), Some(S("prefix"))},
        pr \in {100, 50, 1999, 2000, 3000}}
InitPrecedence ==
    /\ InitWith({[HttpResource EXCEPT
                    !.maintenanceModeEnabled = TRUE,
                    !.maintenanceModeType = Some(S("automatic"))]},
                {Profile0, [Profile0 EXCEPT !.method = Null]},
                PrecedenceProfiles, MoreProfiles,
                {DefaultArgs}, {DefaultTraefik})
    /\ rewriteThrows = FALSE
SpecPrecedence == InitPrecedence /\ [][Next]_vars


(***************************************************************************)
(* SSL resources, in and out of maintenance, over the inputs of the tls    *)
(* block                                                                   *)
(***************************************************************************)
\* with and without subdomain, full domains of two, three and four labels,
\* in forced maintenance or not
TlsResources ==
    {[HttpResource EXCEPT !.subdomain = sd, !.fullDomain = Some(fd),
                          !.maintenanceModeEnabled = mm,
                          !.maintenanceModeType = Some(S("forced"))] :
        sd \in {Null, Some(S("app"))},
        fd \in {<<"example", ".", "com">>,
                <<"app", ".", "example", ".", "com">>,
                <<"app", ".", "eu", ".", "example", ".", "com">>},
        mm \in BOOLEAN}
\* domains.certResolver: null, empty, whitespace only, padded, plain
CertResolvers ==
    {Null, Some(<<>>), Some(<<" ", " ">>), Some(<<" ", "custom", " ">>),
     Some(S("custom"))}
InitTls ==
    /\ resources \in {{r} : r \in TlsResources}
    /\ \E n \in 1..MaxTargets :
         /\ targets = {MkTarget(i, Profile0) : i \in 1..n}
         /\ sites = {MkSite(i, Profile0) : i \in 1..n}
    /\ targetHealthCheck = {}
    /\ \E cr \in CertResolvers :
         domains = {[domainId |-> S("domain1"), certResolver |-> cr]}
    /\ \E pw \in BOOLEAN :
         traefik = [DefaultTraefik EXCEPT !.prefer_wildcard_cert = pw]
    /\ rewriteThrows = FALSE
    /\ args = [c \in {1} |-> DefaultArgs]
    /\ pc = [c \in {1} |-> "idle"]
    /\ rows = [c \in {1} |-> <<>>]
    /\ doc = [c \in {1} |-> <<>>]
    /\ prev = [c \in {1} |-> <<>>]
SpecTls == InitTls /\ [][Next]_vars


(***************************************************************************)
(* Declared priorities: the neutral 100, zero, negative and positive ones  *)
(***************************************************************************)
DeclaredPriorities == {100, 0, -5, -100, 50}
OverrideProfiles ==
    {[Profile0 EXCEPT !.path = pa, !.pathMatchType = mt, !.priority = pr] :
        pa \in {Null, Some(<<"/", "api">>)},
        mt \in {Null, Some(S("prefix"))},
        pr \in DeclaredPriorities}
InitOverride ==
    /\ InitWith({HttpResource}, OverrideProfiles, OverrideProfiles, MoreProfiles,
                {DefaultArgs}, {DefaultTraefik})
    /\ rewriteThrows = FALSE
SpecOverride == InitOverride /\ [][Next]_vars


(***************************************************************************)
(* Middleware chains: with and without SSL, headers, maintenance, rewrite  *)
(* and operator-supplied middlewares                                       *)
(***************************************************************************)
ChainResources ==
    {[HttpResource EXCEPT !.ssl = ssl, !.setHostHeader = hh,
                          !.maintenanceModeEnabled = mm,
                          !.maintenanceModeType = Some(S("forced"))] :
        ssl \in BOOLEAN, hh \in {Null, Some(S("internal"))}, mm \in BOOLEAN}
\* traefik.additional_middlewares: not set, or one middleware of the operator
ChainTraefik ==
    {DefaultTraefik,
     [DefaultTraefik EXCEPT
         !.additional_middlewares = Some(<<<<"crowdsec", "@", "file">>>>)]}
InitChain ==
    /\ InitWith(ChainResources, ComboProfiles(8080), ComboProfiles(8081),
                ComboProfiles(8082), {DefaultArgs}, ChainTraefik)
    /\ rewriteThrows = FALSE
SpecChain == InitChain /\ [][Next]_vars


(***************************************************************************)
(* Targets of one resource under several paths, two of which differ only   *)
(* in a character that sanitize replaces                                   *)
(***************************************************************************)
GroupingProfiles ==
    {[Profile0 EXCEPT !.path = pa, !.pathMatchType = mt, !.port = Some(po)] :
        pa \in {Null, Some(<<"/", "api">>), Some(<<"/", "a", "/", "b">>),
                Some(<<"/", "a", "-", "b">>)},
        mt \in {Some(S("prefix")), Some(S("exact"))},
        po \in {8080, 8081}}
InitGrouping ==
    /\ InitWith({HttpResource}, GroupingProfiles, GroupingProfiles,
                MoreProfiles, {DefaultArgs}, {DefaultTraefik})
    /\ rewriteThrows = FALSE
SpecGrouping == InitGrouping /\ [][Next]_vars


(***************************************************************************)
(* Several groups of one resource in automatic maintenance, under two      *)
(* resource names                                                          *)
(***************************************************************************)
OrderResources ==
    {[HttpResource EXCEPT !.name = nm, !.maintenanceModeEnabled = TRUE,
                          !.maintenanceModeType = Some(S("automatic"))] :
        nm \in {<<"my", " ", "app">>,
                <<"api", " ", "prefix", " ", "maintenance">>}}
\* targets with or without path and rewrite, with or without ip
OrderProfiles ==
    {[Profile0 EXCEPT !.path = x[1], !.pathMatchType = x[2],
                      !.rewritePath = x[3], !.rewritePathType = x[4],
                      !.ip = ip] :
        x \in {<<Null, Null, Null, Null>>,
               <<Some(<<"/", "api">>), Some(S("prefix")), Null, Null>>,
               <<Some(<<"/", "api">>), Some(S("prefix")), Some(<<"/", "v2">>),
                 Some(S("stripPrefix"))>>},
        ip \in {Null, Some(Ip1)}}
InitOrder ==
    /\ InitWith(OrderResources, OrderProfiles, OrderProfiles, OrderProfiles,
                {DefaultArgs}, {DefaultTraefik})
    /\ rewriteThrows = FALSE
SpecOrder == InitOrder /\ [][Next]_vars


(***************************************************************************)
(* TCP and UDP resources in every maintenance setting, with targets that   *)
(* can or cannot be served                                                 *)
(***************************************************************************)
RawMaintenanceResources ==
    {[RawResource(pr) EXCEPT !.maintenanceModeEnabled = en,
                             !.maintenanceModeType = ty] :
        pr \in {S("tcp"), S("udp")}, en \in BOOLEAN,
        ty \in {Null, Some(S("forced")), Some(S("automatic"))}}
RawProfiles ==
    {[Profile0 EXCEPT !.ip = ip, !.online = on, !.port = Some(po)] :
        ip \in {Null, Some(Ip1)}, on \in BOOLEAN, po \in {8080, 8081}}
InitRaw ==
    /\ InitWith(RawMaintenanceResources, RawProfiles, RawProfiles, RawProfiles,
                {DefaultArgs}, {DefaultTraefik})
    /\ rewriteThrows = FALSE
SpecRaw == InitRaw /\ [][Next]_vars


(***************************************************************************)
(* Resources with every kind of reference between entries: headers that    *)
(* parse or not, host header, TLS server name, maintenance, proxy protocol *)
(***************************************************************************)
\* resources.headers: null, an empty list, text that does not parse, one header
HeadersValues ==
    {Null, Some([ok |-> TRUE, pairs |-> <<>>]), Some([ok |-> FALSE, pairs |-> <<>>]),
     Some([ok |-> TRUE, pairs |-> <<[name |-> "X-Env", value |-> S("prod")]>>])}
IntegrityResources ==
    {[HttpResource EXCEPT !.headers = h, !.setHostHeader = hh,
                          !.tlsServerName = sn, !.maintenanceModeEnabled = mm,
                          !.maintenanceModeType = Some(S("forced"))] :
        h \in HeadersValues, hh \in {Null, Some(S("internal"))},
        sn \in {Null, Some(S("backend"))}, mm \in BOOLEAN}
    \cup {[RawResource(pr) EXCEPT !.proxyProtocol = pp] :
            pr \in {S("tcp"), S("udp")}, pp \in BOOLEAN}
IntegrityProfiles ==
    {[Profile0 EXCEPT !.path = x[1], !.pathMatchType = x[2],
                      !.rewritePath = x[3], !.rewritePathType = x[4]] :
        x \in {<<Null, Null, Null, Null>>,
               <<Some(<<"/", "api">>), Some(S("prefix")), Some(<<"/", "v2">>),
                 Some(S("stripPrefix"))>>}}
InitIntegrity ==
    /\ InitWith(IntegrityResources, IntegrityProfiles, IntegrityProfiles,
                IntegrityProfiles, {DefaultArgs}, {DefaultTraefik})
    /\ rewriteThrows = FALSE
SpecIntegrity == InitIntegrity /\ [][Next]_vars


(***************************************************************************)
(* Maintenance enabled under every value of the mode column                *)
(***************************************************************************)
\* maintenanceModeType: null, the two modes, the empty string, an unknown
\* word, a mode in another case
ModeValues ==
    {Null, Some(S("forced")), Some(S("automatic")), Some(<<>>),
     Some(S("scheduled")), Some(S("Forced"))}
ModeResources ==
    {[HttpResource EXCEPT !.ssl = ssl, !.maintenanceModeEnabled = TRUE,
                          !.maintenanceModeType = ty] :
        ssl \in BOOLEAN, ty \in ModeValues}
\* targets that can or cannot be served
ModeProfiles ==
    {[Profile0 EXCEPT !.ip = ip, !.online = on, !.port = Some(po)] :
        ip \in {Null, Some(Ip1)}, on \in BOOLEAN, po \in {8080, 8081}}
InitModes ==
    /\ InitWith(ModeResources, ModeProfiles, ModeProfiles, ModeProfiles,
                {DefaultArgs}, {DefaultTraefik})
    /\ rewriteThrows = FALSE
SpecModes == InitModes /\ [][Next]_vars


(***************************************************************************)
(* Two callers that read one snapshot with arguments of their own          *)
(***************************************************************************)
\* the arguments of a call: raw resources or not, and the two flags
\* filterOutNamespaceDomains and generateLoginPageRouters
FlagArgs ==
    {[DefaultArgs EXCEPT !.allowRawResources = raw,
                         !.filterOutNamespaceDomains = f,
                         !.generateLoginPageRouters = l] :
        raw \in BOOLEAN, f \in BOOLEAN, l \in BOOLEAN}
FlagProfiles ==
    {[Profile0 EXCEPT !.type = ty, !.subnet = Some(Subnet1)] :
        ty \in {S("local"), S("newt")}}
InitFlags ==
    /\ resources \in {{HttpResource}, {RawResource(S("tcp"))}}
    /\ \E n \in 1..MaxTargets : \E f \in [1..n -> FlagProfiles] :
         /\ targets = {MkTarget(i, f[i]) : i \in 1..n}
         /\ sites = {MkSite(i, f[i]) : i \in 1..n}
    /\ targetHealthCheck = {}
    /\ domains = {[domainId |-> S("domain1"), certResolver |-> Null]}
    /\ traefik = DefaultTraefik
    /\ args \in [{1, 2} -> FlagArgs]
    /\ pc = [c \in {1, 2} |-> "idle"]
    /\ rows = [c \in {1, 2} |-> <<>>]
    /\ doc = [c \in {1, 2} |-> <<>>]
    /\ prev = [c \in {1, 2} |-> <<>>]
    /\ rewriteThrows = FALSE
SpecFlags == InitFlags /\ [][Next]_vars

(***************************************************************************)
(* Properties                                                              *)
(***************************************************************************)
\* a call of c has returned: rows[c] and doc[c] are its rows and its document
Returned(c) == pc[c] = "returned"
\* the route groups of c's last call
GroupsOf(c) == resourcesMapOf(rows[c]).get
\* an HTTP group that passes the enabled and domain checks
IsHttpGroup(g) ==
    /\ g.enabled /\ TruthyBool(g.http)
    /\ TruthyStr(g.domainId) /\ TruthyStr(g.fullDomain)
\* the number of eligible targets of a group
Eligible(g) == Len(availableServers(g.targets))
IsForced(g) ==
    g.maintenanceModeEnabled /\ g.maintenanceModeType = Some(S("forced"))
IsAutomatic(g) ==
    g.maintenanceModeEnabled /\ g.maintenanceModeType = Some(S("automatic"))

\* C1: every HTTP group in forced maintenance mode that passes the enabled and
\* domain checks has its <groupKey>-maintenance-router in the returned
\* document, whatever the number of its eligible targets
C1_ForcedMaintenanceRouter ==
    \A c \in Callers : Returned(c) =>
        \A key \in DOMAIN GroupsOf(c) :
            (IsHttpGroup(GroupsOf(c)[key]) /\ IsForced(GroupsOf(c)[key]))
            => HasEntry(doc[c], "http", "routers", maintenanceRouterName(key))
\* C1 witness: a forced group with two eligible targets got its maintenance router
C1_Witness ==
    \E c \in Callers : Returned(c) /\
        \E key \in DOMAIN GroupsOf(c) :
            /\ IsHttpGroup(GroupsOf(c)[key]) /\ IsForced(GroupsOf(c)[key])
            /\ Eligible(GroupsOf(c)[key]) >= 2
            /\ HasEntry(doc[c], "http", "routers", maintenanceRouterName(key))

\* the rows the tables hold for resource r, before the WHERE clause
UnfilteredRowsOf(r) ==
    {JoinedRow(s, t, r) :
        <<s, t>> \in {x \in sites \X targets :
                        x[2].siteId = x[1].siteId /\ x[2].resourceId = r.resourceId}}
\* C3: an enabled HTTP resource with a domain, maintenance mode enabled
\* (automatic or forced) and an enabled target on the requesting exit node,
\* all of whose targets are unhealthy, has its maintenance router in the
\* returned document
C3_AllUnhealthyShowsMaintenance ==
    \A c \in Callers : Returned(c) =>
        \A r \in resources :
            ( /\ r.enabled /\ TruthyBool(r.http)
              /\ TruthyStr(r.domainId) /\ TruthyStr(r.fullDomain)
              /\ r.maintenanceModeEnabled
              /\ r.maintenanceModeType \in {Some(S("automatic")), Some(S("forced"))}
              /\ \E row \in UnfilteredRowsOf(r) :
                    /\ row.targetEnabled
                    /\ row.exitNodeId = Some(args[c].exitNodeId)
                    /\ row.siteType \in args[c].siteTypes
              /\ \A row \in UnfilteredRowsOf(r) :
                    row.hcHealth = Some(S("unhealthy")) )
            => \E row \in UnfilteredRowsOf(r) :
                   HasEntry(doc[c], "http", "routers",
                            maintenanceRouterName(mapKeyOf(row)))

\* the maintenance route was emitted for the group
MaintenanceEmitted(g) == IsHttpGroup(g) /\ showMaintenancePage(g, Eligible(g) > 0)
\* the names the normal route of a group would write
NormalRouterNames(key, g) ==
    {routerNameOf(key, g), RedirectName(routerNameOf(key, g))}
NormalMiddlewareNames(key, g) ==
    {headersMiddlewareNameOf(key), rewriteMiddlewareNameOf(key, g),
     <<"addprefix", "-", "r">> \o NumStr(g.resourceId) \o S("-") \o key}
\* C4: when the maintenance route is emitted for a group, the document holds
\* for that group no normal router (nor its redirect twin), no normal
\* service, no headers middleware, no rewrite middleware and no transport:
\* only the maintenance router, the maintenance service and, iff SSL is on,
\* the maintenance redirect twin
C4_MaintenanceExcludesNormal ==
    \A c \in Callers : Returned(c) =>
        \A key \in DOMAIN GroupsOf(c) :
            LET g == GroupsOf(c)[key]
            IN  MaintenanceEmitted(g) =>
                /\ \A n \in NormalRouterNames(key, g) :
                      ~HasEntry(doc[c], "http", "routers", n)
                /\ ~HasEntry(doc[c], "http", "services", serviceNameOf(key, g))
                /\ \A n \in NormalMiddlewareNames(key, g) :
                      ~HasEntry(doc[c], "http", "middlewares", n)
                /\ ~HasEntry(doc[c], "http", "serversTransports",
                             transportNameOf(key))
                /\ HasEntry(doc[c], "http", "routers", maintenanceRouterName(key))
                /\ HasEntry(doc[c], "http", "services", maintenanceServiceName(key))
                /\ HasEntry(doc[c], "http", "routers",
                            RedirectName(maintenanceRouterName(key))) <=> g.ssl
\* C4 witness: a group with a rewrite, a host header and a TLS server name,
\* in automatic mode without eligible targets, got the maintenance route
C4_Witness ==
    \E c \in Callers : Returned(c) /\
        \E key \in DOMAIN GroupsOf(c) :
            LET g == GroupsOf(c)[key]
            IN  /\ MaintenanceEmitted(g) /\ IsAutomatic(g) /\ g.ssl
                /\ WantsRewrite(g) /\ HasHeadersMiddleware(g)
                /\ TruthyStr(g.tlsServerName)
                /\ HasEntry(doc[c], "http", "routers", maintenanceRouterName(key))

\* the protocol family and the name of the normal service of a group
FamilyOf(g) == IF TruthyBool(g.http) THEN "http" ELSE toLowerCase(g.protocol)[1]
HasService(c, key, g) ==
    /\ ~(TruthyBool(g.http) /\ HasEntry(doc[c], "http", "routers",
                                        maintenanceRouterName(key)))
    /\ HasEntry(doc[c], FamilyOf(g), "services", serviceNameOf(key, g))
ServersOf(c, key, g) ==
    doc[c][FamilyOf(g)]["services"][serviceNameOf(key, g)].loadBalancer.servers
\* the field-completeness rule of the site type; the method counts for HTTP only
IsComplete(t, g) ==
    /\ t.site.type \in {S("local"), S("wireguard")} =>
           TruthyStr(t.ip) /\ TruthyNum(t.port)
    /\ t.site.type = S("newt") =>
           TruthyNum(t.internalPort) /\ TruthyStr(t.site.subnet)
    /\ TruthyBool(g.http) => TruthyStr(t.method)
\* the endpoint a complete target resolves to
EndpointOf(t, g) == IF TruthyBool(g.http) THEN HttpServerOf(t) ELSE RawServerOf(t)
Indices(xs) == 1..Len(xs)

\* C5: in every emitted service (HTTP, TCP, UDP), if a target of the group is
\* on an online site, every server entry is the endpoint of an enabled,
\* complete target on an online site; if none is, the endpoint of every
\* enabled, complete target is in the server list
C5_SiteOnlineFallback ==
    \A c \in Callers : Returned(c) =>
        \A key \in DOMAIN GroupsOf(c) :
            LET g == GroupsOf(c)[key]
                ts == g.targets
            IN  HasService(c, key, g) =>
                IF \E i \in Indices(ts) : ts[i].site.online
                THEN \A j \in Indices(ServersOf(c, key, g)) :
                        \E i \in Indices(ts) :
                            /\ ts[i].site.online /\ ts[i].enabled
                            /\ IsComplete(ts[i], g)
                            /\ ServersOf(c, key, g)[j] = EndpointOf(ts[i], g)
                ELSE \A i \in Indices(ts) :
                        (ts[i].enabled /\ IsComplete(ts[i], g)) =>
                        \E j \in Indices(ServersOf(c, key, g)) :
                            ServersOf(c, key, g)[j] = EndpointOf(ts[i], g)
\* C5 witness: of two complete targets with different endpoints, one online
\* and one offline, only the online one is a server
C5_Witness ==
    \E c \in Callers : Returned(c) /\
        \E key \in DOMAIN GroupsOf(c) :
            LET g == GroupsOf(c)[key]
                ts == g.targets
            IN  /\ HasService(c, key, g)
                /\ \E i, j \in Indices(ts) :
                      /\ ts[i].site.online /\ ~ts[j].site.online
                      /\ IsComplete(ts[i], g) /\ IsComplete(ts[j], g)
                      /\ EndpointOf(ts[i], g) # EndpointOf(ts[j], g)
                      /\ ServersOf(c, key, g) = <<EndpointOf(ts[i], g)>>

\* C6: for every HTTP group routed normally, hasHealthyServers
\* (availableServers non-empty) is true iff the server list of the group's
\* service is non-empty
C6_AvailabilityAgreesWithServers ==
    \A c \in Callers : Returned(c) =>
        \A key \in DOMAIN GroupsOf(c) :
            LET g == GroupsOf(c)[key]
            IN  (IsHttpGroup(g) /\ HasService(c, key, g)) =>
                (Len(availableServers(g.targets)) > 0
                 <=> Len(ServersOf(c, key, g)) > 0)
\* C6 witness: a group whose only complete target is offline while an
\* incomplete one is online: no healthy server and an empty server list
C6_Witness ==
    \E c \in Callers : Returned(c) /\
        \E key \in DOMAIN GroupsOf(c) :
            LET g == GroupsOf(c)[key]
                ts == g.targets
            IN  /\ IsHttpGroup(g) /\ HasService(c, key, g)
                /\ \E i, j \in Indices(ts) :
                      /\ ts[i].site.online /\ ~IsComplete(ts[i], g)
                      /\ ~ts[j].site.online /\ IsComplete(ts[j], g)
                /\ Len(availableServers(ts)) = 0
                /\ ServersOf(c, key, g) = <<>>

\* C7: no service of the returned document, in any protocol family, lists
\* the same endpoint twice
C7_NoDuplicateServers ==
    \A c \in Callers : Returned(c) =>
        \A fam \in DOMAIN doc[c] :
            \A name \in DOMAIN Section(doc[c], fam, "services") :
                LET servers == doc[c][fam]["services"][name].loadBalancer.servers
                IN  \A i, j \in Indices(servers) :
                        i # j => servers[i] # servers[j]

\* the normal router of an HTTP group is in the document
HasNormalRouter(c, key, g) ==
    /\ IsHttpGroup(g)
    /\ ~HasEntry(doc[c], "http", "routers", maintenanceRouterName(key))
    /\ HasEntry(doc[c], "http", "routers", routerNameOf(key, g))
RouterPriority(c, key, g) == doc[c]["http"]["routers"][routerNameOf(key, g)].priority
\* the specificity of the match type: exact > prefix > regex > no path
MatchRank(g) ==
    IF ~TruthyStr(g.path) THEN 0
    ELSE IF g.pathMatchType = Some(S("exact")) THEN 3
    ELSE IF g.pathMatchType = Some(S("prefix")) THEN 2
    ELSE IF g.pathMatchType = Some(S("regex")) THEN 1
    ELSE 0
IsPathMatch(g) ==
    TruthyStr(g.path) /\ TruthyStr(g.pathMatchType)
    /\ Val(g.pathMatchType) \in PathMatchTypes

\* C8: of two normal routers of HTTP groups on the same host, both with the
\* declared priority 100, the first with a path other than "/" and a match
\* type, the second with the same path and a less specific match type or
\* with no path, the first has the strictly greater priority
C8_PriorityMonotonicity ==
    \A c \in Callers : Returned(c) =>
        \A k1, k2 \in DOMAIN GroupsOf(c) :
            LET g1 == GroupsOf(c)[k1]
                g2 == GroupsOf(c)[k2]
            IN  ( /\ HasNormalRouter(c, k1, g1) /\ HasNormalRouter(c, k2, g2)
                  /\ g1.fullDomain = g2.fullDomain
                  /\ g1.priority = 100 /\ g2.priority = 100
                  /\ IsPathMatch(g1) /\ g1.path # Some(S("/"))
                  /\ \/ ~TruthyStr(g2.path)
                     \/ IsPathMatch(g2) /\ g2.path = g1.path
                  /\ MatchRank(g1) > MatchRank(g2) )
                => RouterPriority(c, k1, g1) > RouterPriority(c, k2, g2)
\* C8 witness: a prefix group and a regex group on the same path, both routed
C8_Witness ==
    \E c \in Callers : Returned(c) /\
        \E k1, k2 \in DOMAIN GroupsOf(c) :
            LET g1 == GroupsOf(c)[k1]
                g2 == GroupsOf(c)[k2]
            IN  /\ HasNormalRouter(c, k1, g1) /\ HasNormalRouter(c, k2, g2)
                /\ g1.priority = 100 /\ g2.priority = 100
                /\ g1.path = Some(<<"/", "api">>) /\ g2.path = g1.path
                /\ g1.pathMatchType = Some(S("prefix"))
                /\ g2.pathMatchType = Some(S("regex"))
                /\ RouterPriority(c, k1, g1) > RouterPriority(c, k2, g2)

\* C9 as stated: every normal HTTP router of a group whose path is exactly
\* "/" has priority 1, whatever the match type and the declared priority
C9_RootPathPriorityOne ==
    \A c \in Callers : Returned(c) =>
        \A key \in DOMAIN GroupsOf(c) :
            LET g == GroupsOf(c)[key]
            IN  (HasNormalRouter(c, key, g) /\ g.path = Some(S("/")))
                => RouterPriority(c, key, g) = 1
\* C9 amended: every normal HTTP router of a group whose path is exactly "/",
\* whose match type is not empty and whose declared priority is 100 or 0 (no
\* override) has priority 1
C9_RootPathPriorityOneNoOverride ==
    \A c \in Callers : Returned(c) =>
        \A key \in DOMAIN GroupsOf(c) :
            LET g == GroupsOf(c)[key]
            IN  ( /\ HasNormalRouter(c, key, g) /\ g.path = Some(S("/"))
                  /\ TruthyStr(g.pathMatchType) /\ g.priority \in {100, 0} )
                => RouterPriority(c, key, g) = 1
\* C9 witness: a group with path "/", match type prefix and priority 100 is
\* routed with priority 1
C9_Witness ==
    \E c \in Callers : Returned(c) /\
        \E key \in DOMAIN GroupsOf(c) :
            LET g == GroupsOf(c)[key]
            IN  /\ HasNormalRouter(c, key, g) /\ g.path = Some(S("/"))
                /\ g.pathMatchType = Some(S("prefix")) /\ g.priority = 100
                /\ RouterPriority(c, key, g) = 1

\* the normal router of the group key is in the document d
NormalRouterIn(d, key, g) == HasEntry(d, "http", "routers", routerNameOf(key, g))
MaintenanceRouterIn(d, key) ==
    HasEntry(d, "http", "routers", maintenanceRouterName(key))
\* C2: over the calls of a caller on changing tables, each call returns the
\* maintenance router of an HTTP group in automatic maintenance mode iff the
\* group has zero eligible targets in the rows of that call, and its normal
\* router otherwise; from one call to the next, a group that was routed
\* normally and has no eligible target left is switched to the maintenance
\* router, and a group that was routed to the maintenance page and has an
\* eligible target again is switched back to its normal router
C2_AutomaticMaintenanceFlips ==
    /\ [](\A c \in Callers : Returned(c) =>
            \A key \in DOMAIN GroupsOf(c) :
              LET g == GroupsOf(c)[key]
              IN  (IsHttpGroup(g) /\ IsAutomatic(g))
                  => /\ MaintenanceRouterIn(doc[c], key) <=> (Eligible(g) = 0)
                     /\ NormalRouterIn(doc[c], key, g) <=> (Eligible(g) > 0))
    /\ [][\A c \in Callers :
            (pc[c] = "awaiting" /\ pc'[c] = "returned") =>
              \A key \in DOMAIN resourcesMapOf(rows'[c]).get :
                LET g == resourcesMapOf(rows'[c]).get[key]
                IN  (IsHttpGroup(g) /\ IsAutomatic(g)) =>
                      /\ (NormalRouterIn(doc[c], key, g) /\ Eligible(g) = 0)
                         => /\ MaintenanceRouterIn(doc'[c], key)
                            /\ ~NormalRouterIn(doc'[c], key, g)
                      /\ (MaintenanceRouterIn(doc[c], key) /\ Eligible(g) > 0)
                         => /\ NormalRouterIn(doc'[c], key, g)
                            /\ ~MaintenanceRouterIn(doc'[c], key)]_vars
\* C2 witness: a call returned the normal router of an automatic group, and
\* the caller's next call, with no eligible target left in the group,
\* returned its maintenance router instead
C2_Witness ==
    \E c \in Callers : Returned(c) /\
        \E key \in DOMAIN GroupsOf(c) :
            LET g == GroupsOf(c)[key]
            IN  /\ IsHttpGroup(g) /\ IsAutomatic(g) /\ Eligible(g) = 0
                /\ NormalRouterIn(prev[c], key, g)
                /\ ~MaintenanceRouterIn(prev[c], key)
                /\ MaintenanceRouterIn(doc[c], key)
                /\ ~NormalRouterIn(doc[c], key, g)

\* the document a call of c would return on the tables as they stand
DocumentNow(c) == configOf(resourcesWithTargetsAndSites(args[c]))

\* C11: while the only changes of the tables are changes of a target's health
\* between absent (null) and "healthy", the document that getTraefikConfig
\* returned before the changes is the document it returns after them
C11_HealthyLikeAbsent ==
    \A c \in Callers : Returned(c) => DocumentNow(c) = doc[c]
\* C11 witness: a call returned a document with a server of a target without
\* health record; the target has since been recorded healthy, no other
\* health has changed, and a call now returns the same document
C11_Witness ==
    \E c \in Callers : Returned(c) /\ doc[c] # <<>> /\
        \E i \in 1..Len(rows[c]) :
          /\ rows[c][i].hcHealth = Null
          /\ \E t \in targets :
               t.targetId = rows[c][i].targetId
               /\ HcHealthOf(t) = Some(S("healthy"))
          /\ \A j \in 1..Len(rows[c]) : j # i =>
               \E t \in targets :
                 t.targetId = rows[c][j].targetId
                 /\ HcHealthOf(t) = rows[c][j].hcHealth
          /\ Len(resourcesWithTargetsAndSites(args[c])) = Len(rows[c])
          /\ DocumentNow(c) = doc[c]

\* a group that passes the checks made before anything is written for it
IsEmitted(g) ==
    /\ g.enabled
    /\ IF TruthyBool(g.http)
       THEN TruthyStr(g.domainId) /\ TruthyStr(g.fullDomain)
       ELSE g.enableProxy /\ TruthyNum(g.proxyPort)
NoGroupEmitted(c) == \A key \in DOMAIN GroupsOf(c) : ~IsEmitted(GroupsOf(c)[key])
\* the document that holds the redirect middleware and nothing else
OnlyRedirectMiddleware(d) ==
    /\ DOMAIN d = {"http"}
    /\ DOMAIN d["http"] = {"middlewares"}
    /\ DOMAIN d["http"]["middlewares"] = {redirectHttpsMiddlewareName}

\* C12 as stated: whenever no group is emitted (no rows, or every group is
\* skipped), the returned document is the empty object
C12_NoGroupEmptyObject ==
    \A c \in Callers : (Returned(c) /\ NoGroupEmitted(c)) => doc[c] = <<>>
\* C12 amended: the returned document is the empty object when there is no
\* group at all; when there are groups and every one is skipped, it holds
\* the family http with the redirect middleware and nothing else
C12_NoGroupEmptyOrRedirectOnly ==
    \A c \in Callers : (Returned(c) /\ NoGroupEmitted(c)) =>
        IF DOMAIN GroupsOf(c) = {} THEN doc[c] = <<>>
        ELSE OnlyRedirectMiddleware(doc[c])
\* C12 witness: the only group of the call is an HTTP group without domain,
\* and the document holds http.middlewares alone
C12_Witness ==
    \E c \in Callers :
        /\ Returned(c) /\ NoGroupEmitted(c)
        /\ \E key \in DOMAIN GroupsOf(c) :
             TruthyBool(GroupsOf(c)[key].http) /\ GroupsOf(c)[key].domainId = Null
        /\ OnlyRedirectMiddleware(doc[c])

\* the names a group can write under routers and services
RouterNamesOfGroup(key, g) ==
    {routerNameOf(key, g), RedirectName(routerNameOf(key, g)),
     maintenanceRouterName(key), RedirectName(maintenanceRouterName(key))}
ServiceNamesOfGroup(key, g) ==
    {serviceNameOf(key, g), maintenanceServiceName(key)}
Families == {"http", "tcp", "udp"}

\* C13: whatever the interleaving of the calls, the document a call returned
\* is the document built from the rows of its own read alone, and every
\* router and service of it is named after a group of its own rows
C13_CallsShareNothing ==
    \A c \in Callers : Returned(c) =>
        /\ doc[c] = configOf(rows[c])
        /\ \A fam \in Families :
             /\ \A n \in DOMAIN Section(doc[c], fam, "routers") :
                  \E key \in DOMAIN GroupsOf(c) :
                      n \in RouterNamesOfGroup(key, GroupsOf(c)[key])
             /\ \A n \in DOMAIN Section(doc[c], fam, "services") :
                  \E key \in DOMAIN GroupsOf(c) :
                      n \in ServiceNamesOfGroup(key, GroupsOf(c)[key])
\* C13 witness: the two callers, asking for different exit nodes, have both
\* returned and hold documents of the same family with different routers,
\* each the document of its own rows
C13_Witness ==
    /\ Returned(1) /\ Returned(2)
    /\ args[1].exitNodeId # args[2].exitNodeId
    /\ doc[1] # <<>> /\ doc[2] # <<>>
    /\ \E fam \in Families :
         /\ DOMAIN Section(doc[1], fam, "routers") # {}
         /\ DOMAIN Section(doc[2], fam, "routers") # {}
         /\ DOMAIN Section(doc[1], fam, "routers")
              \cap DOMAIN Section(doc[2], fam, "routers") = {}
    /\ doc[1] = configOf(rows[1]) /\ doc[2] = configOf(rows[2])

\* the server entries of every service of a document
AllServers(d) ==
    UNION {UNION {LET sv == d[fam]["services"][n].loadBalancer.servers
                  IN  {sv[i] : i \in 1..Len(sv)} :
                  n \in DOMAIN Section(d, fam, "services")} :
           fam \in Families \cap DOMAIN d}
\* the server entries a target would be written as
ServersOfTarget(s, t, r) ==
    {HttpServerOf(TargetWithSite(JoinedRow(s, t, r))),
     RawServerOf(TargetWithSite(JoinedRow(s, t, r)))}
\* a joined (site, target, resource) the caller with arguments a must not
\* be served
Excluded(s, t, r, a) ==
    \/ ~t.enabled
    \/ ~r.enabled
    \/ HcHealthOf(t) = Some(S("unhealthy"))
    \/ s.type \notin a.siteTypes
    \/ ~ \/ s.exitNodeId = Some(a.exitNodeId)
         \/ s.exitNodeId = Null /\ s.type = S("local")
            /\ S("local") \in a.siteTypes
Joined == {x \in sites \X targets \X resources :
             x[2].siteId = x[1].siteId /\ x[3].resourceId = x[2].resourceId}

\* C14: no server entry of a returned document is the endpoint of a target
\* that is disabled, whose resource is disabled, that is unhealthy, whose
\* site type was not requested, or whose site belongs to another exit node
\* (a site without exit node counts only when local and local is requested)
C14_NoServerOfExcludedTarget ==
    \A c \in Callers : Returned(c) =>
        \A x \in Joined :
            Excluded(x[1], x[2], x[3], args[c])
            => AllServers(doc[c]) \cap ServersOfTarget(x[1], x[2], x[3]) = {}
\* C14 witness: the document serves one target and not the other, which is
\* on a site of another exit node
C14_Witness ==
    \E c \in Callers : Returned(c) /\
        \E x, y \in Joined :
            /\ ~Excluded(x[1], x[2], x[3], args[c])
            /\ AllServers(doc[c]) \cap ServersOfTarget(x[1], x[2], x[3]) # {}
            /\ y[1].exitNodeId = Some(2) /\ y[2].enabled
            /\ HcHealthOf(y[2]) # Some(S("unhealthy"))
            /\ y[1].type \in args[c].siteTypes
            /\ AllServers(doc[c]) \cap ServersOfTarget(y[1], y[2], y[3]) = {}

\* the row's path and rewrite settings pass the validation
RowIsValid(row) ==
    validatePathRewriteConfig(row.path, row.pathMatchType,
                              row.rewritePath, row.rewritePathType)
\* the keys carried by rows none of which passes the validation
InvalidKeys(rs) ==
    {k \in {mapKeyOf(rs[i]) : i \in 1..Len(rs)} :
        \A i \in 1..Len(rs) : mapKeyOf(rs[i]) = k => ~RowIsValid(rs[i])}
\* every name the loop can write for a key, from the row that carries it
NamesUnderKey(row) ==
    LET key == mapKeyOf(row)
        g == NewGroup(row)
    IN  RouterNamesOfGroup(key, g) \cup ServiceNamesOfGroup(key, g)
        \cup NormalMiddlewareNames(key, g) \cup {transportNameOf(key)}
\* every name written in any section of the document
AllNames(d) ==
    UNION {UNION {DOMAIN d[fam][sec] : sec \in DOMAIN d[fam]} : fam \in DOMAIN d}
RECURSIVE WithoutKeys(_, _)
WithoutKeys(rs, ks) ==
    IF rs = <<>> THEN <<>>
    ELSE IF mapKeyOf(Head(rs)) \in ks THEN WithoutKeys(Tail(rs), ks)
    ELSE <<Head(rs)>> \o WithoutKeys(Tail(rs), ks)

\* C15: a key whose rows all fail validatePathRewriteConfig has no router,
\* service, middleware or transport in the returned document, and the
\* document is the one built from the rows without the rows of such keys
C15_InvalidGroupDropped ==
    \A c \in Callers : Returned(c) =>
        /\ \A i \in 1..Len(rows[c]) :
             mapKeyOf(rows[c][i]) \in InvalidKeys(rows[c])
             => AllNames(doc[c]) \cap NamesUnderKey(rows[c][i]) = {}
        /\ doc[c] = configOf(WithoutKeys(rows[c], InvalidKeys(rows[c])))
\* C15 witness: of two rows, one carries an unknown rewrite type and the
\* other is valid; the document holds the router of the valid one only
C15_Witness ==
    \E c \in Callers : Returned(c) /\
        \E i, j \in 1..Len(rows[c]) :
            /\ rows[c][i].rewritePathType = Some(S("bogus"))
            /\ mapKeyOf(rows[c][i]) \in InvalidKeys(rows[c])
            /\ RowIsValid(rows[c][j])
            /\ AllNames(doc[c]) \cap NamesUnderKey(rows[c][i]) = {}
            /\ routerNameOf(mapKeyOf(rows[c][j]), NewGroup(rows[c][j]))
                 \in AllNames(doc[c])

\* the router and the servers written for a group in a document
RouterOf(d, key, g) == d["http"]["routers"][routerNameOf(key, g)]
HttpServersIn(d, key, g) ==
    d["http"]["services"][serviceNameOf(key, g)].loadBalancer.servers
\* the names createPathRewriteMiddleware defines for a group
RewriteNames(key, g) ==
    {rewriteMiddlewareNameOf(key, g),
     <<"addprefix", "-", "r">> \o NumStr(g.resourceId) \o S("-") \o key}
Range(xs) == {xs[i] : i \in 1..Len(xs)}

\* C16: while createPathRewriteMiddleware throws, a call returns, for every
\* group with a rewrite, the router and the service it returned before
\* (same rule, priority and servers), the router's middleware chain names no
\* rewrite middleware, and http.middlewares defines none for the group
C16_RewriteFailureKeepsRoute ==
    \A c \in Callers : (Returned(c) /\ rewriteThrows) =>
        \A key \in DOMAIN GroupsOf(c) :
            LET g == GroupsOf(c)[key]
                now == DocumentNow(c)
            IN  (HasNormalRouter(c, key, g) /\ WantsRewrite(g)) =>
                  /\ HasEntry(now, "http", "routers", routerNameOf(key, g))
                  /\ HasEntry(now, "http", "services", serviceNameOf(key, g))
                  /\ RouterOf(now, key, g).rule = RouterOf(doc[c], key, g).rule
                  /\ RouterOf(now, key, g).priority
                       = RouterOf(doc[c], key, g).priority
                  /\ HttpServersIn(now, key, g) = HttpServersIn(doc[c], key, g)
                  /\ Range(RouterOf(now, key, g).middlewares)
                       \cap RewriteNames(key, g) = {}
                  /\ DOMAIN Section(now, "http", "middlewares")
                       \cap RewriteNames(key, g) = {}
\* C16 witness: the caller holds a document with the rewrite middleware of a
\* group; the collaborator has since started to throw, and a call now
\* returns the group's router without that middleware
C16_Witness ==
    \E c \in Callers : Returned(c) /\ rewriteThrows /\
        \E key \in DOMAIN GroupsOf(c) :
            LET g == GroupsOf(c)[key]
                now == DocumentNow(c)
            IN  /\ HasNormalRouter(c, key, g) /\ WantsRewrite(g)
                /\ rewriteMiddlewareNameOf(key, g)
                     \in Range(RouterOf(doc[c], key, g).middlewares)
                /\ HasEntry(doc[c], "http", "middlewares",
                            rewriteMiddlewareNameOf(key, g))
                /\ HasEntry(now, "http", "routers", routerNameOf(key, g))
                /\ Range(RouterOf(now, key, g).middlewares)
                     \cap RewriteNames(key, g) = {}
                /\ ~HasEntry(now, "http", "middlewares",
                             rewriteMiddlewareNameOf(key, g))

\* the keys of the groups of c that lack a field required for emission
SkippedKeys(c) == {k \in DOMAIN GroupsOf(c) : ~IsEmitted(GroupsOf(c)[k])}

\* C17: a group that lacks a field required for emission (an HTTP group
\* without domainId or fullDomain, a TCP/UDP group with the proxy disabled or
\* without proxy port) has no router, service, middleware or transport in
\* the returned document, and every section of the document built from the
\* rows of the other groups alone is in the returned document unchanged,
\* which names nothing else but the redirect middleware
C17_SkippedGroupWritesNothing ==
    \A c \in Callers : Returned(c) =>
        LET others == configOf(WithoutKeys(rows[c], SkippedKeys(c)))
        IN  /\ \A i \in 1..Len(rows[c]) :
                 mapKeyOf(rows[c][i]) \in SkippedKeys(c)
                 => AllNames(doc[c]) \cap NamesUnderKey(rows[c][i]) = {}
            /\ \A fam \in DOMAIN others : \A sec \in DOMAIN others[fam] :
                 /\ HasSection(doc[c], fam, sec)
                 /\ doc[c][fam][sec] = others[fam][sec]
            /\ AllNames(doc[c])
                 \subseteq AllNames(others) \cup {redirectHttpsMiddlewareName}
\* C17 witness: resource 1 is a TCP resource with the proxy disabled and
\* resource 2 an HTTP resource; the document holds the router of resource 2
\* and no family tcp
C17_Witness ==
    \E c \in Callers : Returned(c) /\
        \E k1, k2 \in DOMAIN GroupsOf(c) :
            LET g1 == GroupsOf(c)[k1]
                g2 == GroupsOf(c)[k2]
            IN  /\ g1.http = Some(FALSE) /\ ~g1.enableProxy
                /\ k1 \in SkippedKeys(c)
                /\ IsHttpGroup(g2)
                /\ HasEntry(doc[c], "http", "routers", routerNameOf(k2, g2))
                /\ ~HasFamily(doc[c], "tcp")
                /\ AllNames(doc[c]) \cap RouterNamesOfGroup(k1, g1) = {}

\* the maintenance router of a key is in the document of c
HasMaintenanceRouter(c, key) == MaintenanceRouterIn(doc[c], key)
MaintenanceRouterPriority(c, key) ==
    doc[c]["http"]["routers"][maintenanceRouterName(key)].priority

\* C18 as stated: in every returned document the priority of each
\* maintenance router is strictly greater than the priority of every normal
\* HTTP router, whatever priority the groups declare
C18_MaintenanceAboveEveryRouter ==
    \A c \in Callers : Returned(c) =>
        \A k1, k2 \in DOMAIN GroupsOf(c) :
            (HasMaintenanceRouter(c, k1) /\ HasNormalRouter(c, k2, GroupsOf(c)[k2]))
            => MaintenanceRouterPriority(c, k1)
                 > RouterPriority(c, k2, GroupsOf(c)[k2])
\* C18 amended: in every returned document the priority of each maintenance
\* router (2000) is strictly greater than the priority of every normal HTTP
\* router whose group declares a priority below 2000
C18_MaintenanceAboveRoutersBelow2000 ==
    \A c \in Callers : Returned(c) =>
        \A k1, k2 \in DOMAIN GroupsOf(c) :
            ( /\ HasMaintenanceRouter(c, k1)
              /\ HasNormalRouter(c, k2, GroupsOf(c)[k2])
              /\ GroupsOf(c)[k2].priority < 2000 )
            => /\ MaintenanceRouterPriority(c, k1) = 2000
               /\ MaintenanceRouterPriority(c, k1)
                    > RouterPriority(c, k2, GroupsOf(c)[k2])
\* C18 witness: a document with the maintenance router of one group and the
\* normal router of a group that declares priority 1999
C18_Witness ==
    \E c \in Callers : Returned(c) /\
        \E k1, k2 \in DOMAIN GroupsOf(c) :
            /\ HasMaintenanceRouter(c, k1)
            /\ HasNormalRouter(c, k2, GroupsOf(c)[k2])
            /\ GroupsOf(c)[k2].priority = 1999
            /\ RouterPriority(c, k2, GroupsOf(c)[k2]) = 1999
            /\ MaintenanceRouterPriority(c, k1) = 2000

\* C19: for every SSL HTTP group in maintenance, the tls block of its
\* maintenance router equals the tls block the normal-routing branch computes
\* for the group (same certResolver, same presence and value of domains)
C19_MaintenanceTlsIsNormalTls ==
    \A c \in Callers : Returned(c) =>
        \A key \in DOMAIN GroupsOf(c) :
            LET g == GroupsOf(c)[key]
            IN  (IsHttpGroup(g) /\ g.ssl /\ HasMaintenanceRouter(c, key))
                => doc[c]["http"]["routers"][maintenanceRouterName(key)].tls
                     = NormalTls(g)

\* C20: every normal HTTP router of a group whose declared priority differs
\* from 100 has exactly that declared priority, zero and negative values
\* included
C20_DeclaredPriorityVerbatim ==
    \A c \in Callers : Returned(c) =>
        \A key \in DOMAIN GroupsOf(c) :
            LET g == GroupsOf(c)[key]
            IN  (HasNormalRouter(c, key, g) /\ g.priority # 100)
                => RouterPriority(c, key, g) = g.priority

\* C21: the certResolver of every normal SSL HTTP router is the domain's
\* resolver with the surrounding whitespace removed when that is not empty,
\* and the process-wide default resolver otherwise (resolver null, empty or
\* whitespace only)
C21_ResolverTrimmedOrDefault ==
    \A c \in Callers : Returned(c) =>
        \A key \in DOMAIN GroupsOf(c) :
            LET g == GroupsOf(c)[key]
                own == g.domainCertResolver
            IN  (IsHttpGroup(g) /\ g.ssl /\ HasNormalRouter(c, key, g))
                => RouterOf(doc[c], key, g).tls.certResolver
                     = IF own # Null /\ Trim(Val(own)) # <<>>
                       THEN Some(Trim(Val(own)))
                       ELSE traefik.cert_resolver

\* the positions of the names of ns in the list xs
PositionsIn(xs, ns) == {i \in 1..Len(xs) : xs[i] \in ns}
\* the routers of a document whose name ends in -redirect
RedirectTwins(d) ==
    IF HasSection(d, "http", "routers")
    THEN {n \in DOMAIN Section(d, "http", "routers") :
            Len(n) >= 2 /\ SubSeq(n, Len(n) - 1, Len(n)) = <<"-", "redirect">>}
    ELSE {}
\* C22: in the middleware list of every normal HTTP router the badger
\* middleware is first, the rewrite middlewares come after it and before the
\* headers middleware, and the headers middleware, when present, is last;
\* the redirect middleware is in no normal or maintenance router's list and
\* is the only middleware of every -redirect twin
C22_MiddlewareOrder ==
    \A c \in Callers : Returned(c) =>
        /\ \A key \in DOMAIN GroupsOf(c) :
             LET g == GroupsOf(c)[key]
                 mw == RouterOf(doc[c], key, g).middlewares
                 rewrites == PositionsIn(mw, RewriteNames(key, g))
                 headers == PositionsIn(mw, {headersMiddlewareNameOf(key)})
             IN  /\ HasNormalRouter(c, key, g) =>
                       /\ mw[1] = badgerMiddlewareName
                       /\ \A i \in rewrites : i > 1 /\ \A j \in headers : i < j
                       /\ headers \in {{}, {Len(mw)}}
                       /\ redirectHttpsMiddlewareName \notin Range(mw)
                 /\ HasMaintenanceRouter(c, key) =>
                       LET m == doc[c]["http"]["routers"][maintenanceRouterName(key)]
                       IN  "middlewares" \in DOMAIN m
                             => redirectHttpsMiddlewareName \notin Range(m.middlewares)
        /\ \A n \in RedirectTwins(doc[c]) :
             doc[c]["http"]["routers"][n].middlewares
               = <<redirectHttpsMiddlewareName>>
\* C22 witness: a normal router lists the badger middleware, an operator's
\* middleware, the two rewrite middlewares of a chain and the headers
\* middleware, in this order, and its twin lists the redirect middleware
C22_Witness ==
    \E c \in Callers : Returned(c) /\
        \E key \in DOMAIN GroupsOf(c) :
            LET g == GroupsOf(c)[key]
                mw == RouterOf(doc[c], key, g).middlewares
            IN  /\ HasNormalRouter(c, key, g)
                /\ Len(mw) = 5
                /\ mw[1] = badgerMiddlewareName
                /\ {mw[3], mw[4]} = RewriteNames(key, g)
                /\ mw[5] = headersMiddlewareNameOf(key)
                /\ RedirectName(routerNameOf(key, g)) \in RedirectTwins(doc[c])

\* the name <R>-redirect
TwinOf(R) == R \o <<"-", "redirect">>
\* the names of the HTTP routers (normal or maintenance) written for a group
EmittedHttpRouters(c, key, g) ==
    (IF HasNormalRouter(c, key, g) THEN {routerNameOf(key, g)} ELSE {})
    \cup (IF IsHttpGroup(g) /\ HasMaintenanceRouter(c, key)
          THEN {maintenanceRouterName(key)} ELSE {})
\* C23: for every emitted HTTP router R, normal or maintenance, the router
\* R-redirect is in the document iff the group's ssl flag is set; it then
\* listens on the HTTP entrypoint, has the rule, the priority and the service
\* of R, and no tls block
C23_RedirectTwinIffSsl ==
    \A c \in Callers : Returned(c) =>
        \A key \in DOMAIN GroupsOf(c) :
            LET g == GroupsOf(c)[key]
                routers == doc[c]["http"]["routers"]
            IN  \A R \in EmittedHttpRouters(c, key, g) :
                  /\ (TwinOf(R) \in DOMAIN routers) <=> g.ssl
                  /\ TwinOf(R) \in DOMAIN routers =>
                       LET twin == routers[TwinOf(R)]
                       IN  /\ twin.entryPoints = <<traefik.http_entrypoint>>
                           /\ twin.rule = routers[R].rule
                           /\ twin.priority = routers[R].priority
                           /\ twin.service = routers[R].service
                           /\ "tls" \notin DOMAIN twin
\* C23 witness: an SSL group in maintenance whose maintenance router has its
\* twin
C23_Witness ==
    \E c \in Callers : Returned(c) /\
        \E key \in DOMAIN GroupsOf(c) :
            LET g == GroupsOf(c)[key]
            IN  /\ g.ssl
                /\ maintenanceRouterName(key) \in EmittedHttpRouters(c, key, g)
                /\ HasEntry(doc[c], "http", "routers",
                            TwinOf(maintenanceRouterName(key)))

\* the path and rewrite configuration of a row
ConfigurationOf(row) ==
    <<row.resourceId, row.path, row.pathMatchType, row.rewritePath,
      row.rewritePathType>>
\* C24: two rows of a read are put in the same route group (they have the
\* same group key) iff they agree on resourceId, path, pathMatchType,
\* rewritePath and rewritePathType
C24_GroupingInjective ==
    \A c \in Callers : Returned(c) =>
        \A i, j \in 1..Len(rows[c]) :
            (mapKeyOf(rows[c][i]) = mapKeyOf(rows[c][j]))
              <=> (ConfigurationOf(rows[c][i]) = ConfigurationOf(rows[c][j]))

\* the orders in which the keys of ks can be visited
VisitOrders(ks) ==
    {p \in [1..Len(ks) -> Range(ks)] :
        \A i, j \in 1..Len(ks) : i # j => p[i] # p[j]}
\* C25: the document assembled by visiting the route groups in any order is
\* the returned document (same names with the same entries in every
\* section of every protocol family)
C25_OrderIrrelevant ==
    \A c \in Callers : Returned(c) =>
        LET resourcesMap == resourcesMapOf(rows[c])
        IN  Len(resourcesMap.keys) > 0 =>
              \A p \in VisitOrders(resourcesMap.keys) :
                  EmitGroups(InitialConfigOutput, resourcesMap, p) = doc[c]

\* the rows with the maintenance columns as they are without maintenance
WithoutMaintenance(rs) ==
    [i \in 1..Len(rs) |->
        [rs[i] EXCEPT !.maintenanceModeEnabled = FALSE,
                      !.maintenanceModeType = Null]]
\* C26: for a non-HTTP group that passes the proxy checks, whatever its
\* maintenance fields and its number of eligible targets, the document holds
\* no maintenance router or service, holds the group's router and service in
\* the family of its protocol, and is the document the same rows give with
\* the maintenance fields cleared
C26_RawIgnoresMaintenance ==
    \A c \in Callers : Returned(c) =>
        \A key \in DOMAIN GroupsOf(c) :
            LET g == GroupsOf(c)[key]
            IN  (~TruthyBool(g.http) /\ IsEmitted(g)) =>
                  /\ AllNames(doc[c]) \cap
                       {maintenanceRouterName(key), maintenanceServiceName(key),
                        TwinOf(maintenanceRouterName(key))} = {}
                  /\ HasEntry(doc[c], FamilyOf(g), "routers", routerNameOf(key, g))
                  /\ HasEntry(doc[c], FamilyOf(g), "services", serviceNameOf(key, g))
                  /\ doc[c] = configOf(WithoutMaintenance(rows[c]))
\* C26 witness: a TCP group in forced maintenance with no eligible target
\* has its router and a service with an empty server list
C26_Witness ==
    \E c \in Callers : Returned(c) /\
        \E key \in DOMAIN GroupsOf(c) :
            LET g == GroupsOf(c)[key]
            IN  /\ ~TruthyBool(g.http) /\ IsForced(g) /\ Eligible(g) = 0
                /\ HasEntry(doc[c], "tcp", "routers", routerNameOf(key, g))
                /\ HasEntry(doc[c], "tcp", "services", serviceNameOf(key, g))
                /\ ServersOf(c, key, g) = <<>>

\* the entries of a section of a document, none when the section is absent
EntriesOf(d, fam, sec) ==
    IF HasSection(d, fam, sec) THEN Section(d, fam, sec) ELSE <<>>
\* the names <key>-headers-middleware of the groups of c
HeadersMiddlewareNames(c) ==
    {headersMiddlewareNameOf(key) : key \in DOMAIN GroupsOf(c)}
\* C27: in every returned document each router's service is an entry of the
\* services of the same protocol family, each HTTP service's
\* serversTransport is an entry of http.serversTransports, and each headers
\* middleware listed by a router is an entry of http.middlewares
C27_ReferentialIntegrity ==
    \A c \in Callers : Returned(c) =>
        /\ \A fam \in DOMAIN doc[c] :
             \A n \in DOMAIN EntriesOf(doc[c], fam, "routers") :
                 doc[c][fam]["routers"][n].service
                   \in DOMAIN EntriesOf(doc[c], fam, "services")
        /\ \A n \in DOMAIN EntriesOf(doc[c], "http", "services") :
             LET lb == doc[c]["http"]["services"][n].loadBalancer
             IN  "serversTransport" \in DOMAIN lb =>
                   lb.serversTransport
                     \in DOMAIN EntriesOf(doc[c], "http", "serversTransports")
        /\ \A n \in DOMAIN EntriesOf(doc[c], "http", "routers") :
             LET r == doc[c]["http"]["routers"][n]
             IN  "middlewares" \in DOMAIN r =>
                   Range(r.middlewares) \cap HeadersMiddlewareNames(c)
                     \subseteq DOMAIN EntriesOf(doc[c], "http", "middlewares")
\* C27 witness: a normal router whose service names a serversTransport and
\* whose list names the group's headers middleware, both defined
C27_Witness ==
    \E c \in Callers : Returned(c) /\
        \E key \in DOMAIN GroupsOf(c) :
            LET g == GroupsOf(c)[key]
            IN  /\ HasNormalRouter(c, key, g)
                /\ headersMiddlewareNameOf(key)
                     \in Range(RouterOf(doc[c], key, g).middlewares)
                /\ HasEntry(doc[c], "http", "middlewares",
                            headersMiddlewareNameOf(key))
                /\ TruthyStr(g.tlsServerName)
                /\ doc[c]["http"]["services"][RouterOf(doc[c], key, g).service]
                     .loadBalancer.serversTransport = transportNameOf(key)
                /\ HasEntry(doc[c], "http", "serversTransports",
                            transportNameOf(key))

\* C28: an HTTP group with maintenance enabled whose mode is neither forced
\* nor automatic has no maintenance router and no maintenance service, and
\* has its normal router and service, whatever its number of eligible
\* targets
C28_UnknownModeRoutesNormally ==
    \A c \in Callers : Returned(c) =>
        \A key \in DOMAIN GroupsOf(c) :
            LET g == GroupsOf(c)[key]
            IN  ( /\ IsHttpGroup(g) /\ g.maintenanceModeEnabled
                  /\ g.maintenanceModeType
                       \notin {Some(S("forced")), Some(S("automatic"))} )
                => /\ AllNames(doc[c]) \cap
                        {maintenanceRouterName(key), maintenanceServiceName(key),
                         TwinOf(maintenanceRouterName(key))} = {}
                   /\ HasEntry(doc[c], "http", "routers", routerNameOf(key, g))
                   /\ HasEntry(doc[c], "http", "services", serviceNameOf(key, g))
\* C28 witness: a group with maintenance enabled, no mode and no eligible
\* target has its normal router and a service without servers
C28_Witness ==
    \E c \in Callers : Returned(c) /\
        \E key \in DOMAIN GroupsOf(c) :
            LET g == GroupsOf(c)[key]
            IN  /\ IsHttpGroup(g) /\ g.maintenanceModeEnabled
                /\ g.maintenanceModeType = Null /\ Eligible(g) = 0
                /\ HasNormalRouter(c, key, g)
                /\ HttpServersIn(doc[c], key, g) = <<>>

\* the arguments of a call other than filterOutNamespaceDomains and
\* generateLoginPageRouters
OtherArguments(a) == <<a.exitNodeId, a.siteTypes, a.allowRawResources>>
\* C29: two calls that have returned on the same snapshot with arguments
\* that differ at most in filterOutNamespaceDomains and
\* generateLoginPageRouters hold identical documents
C29_FlagsDoNotMatter ==
    \A c, d \in Callers :
        ( /\ Returned(c) /\ Returned(d)
          /\ OtherArguments(args[c]) = OtherArguments(args[d]) )
        => doc[c] = doc[d]
\* C29 witness: two calls with opposite values of both flags have returned
\* the same document with a router
C29_Witness ==
    \E c, d \in Callers :
        /\ Returned(c) /\ Returned(d)
        /\ OtherArguments(args[c]) = OtherArguments(args[d])
        /\ args[c].filterOutNamespaceDomains # args[d].filterOutNamespaceDomains
        /\ args[c].generateLoginPageRouters # args[d].generateLoginPageRouters
        /\ doc[c] = doc[d]
        /\ HasSection(doc[c], "http", "routers")

\* the enabled targets of a group that satisfy the field-completeness rule
UsableTargets(g) ==
    {i \in Indices(g.targets) : g.targets[i].enabled /\ IsComplete(g.targets[i], g)}
\* C30 as stated: every normal HTTP service of a group with an enabled,
\* complete target has a non-empty server list, whatever the online flags
C30_NoBlackholeWhateverOnline ==
    \A c \in Callers : Returned(c) =>
        \A key \in DOMAIN GroupsOf(c) :
            LET g == GroupsOf(c)[key]
            IN  (HasNormalRouter(c, key, g) /\ UsableTargets(g) # {})
                => HttpServersIn(doc[c], key, g) # <<>>
\* C30 amended: every normal HTTP service of a group with an enabled,
\* complete target that is on an online site, or that is in a group none of
\* whose sites is online, has a non-empty server list
C30_NoBlackholeUnderOnlinePreference ==
    \A c \in Callers : Returned(c) =>
        \A key \in DOMAIN GroupsOf(c) :
            LET g == GroupsOf(c)[key]
                noneOnline == \A j \in Indices(g.targets) : ~g.targets[j].site.online
            IN  ( /\ HasNormalRouter(c, key, g)
                  /\ \E i \in UsableTargets(g) :
                         g.targets[i].site.online \/ noneOnline )
                => HttpServersIn(doc[c], key, g) # <<>>
\* C30 witness: a group none of whose sites is online and whose only usable
\* target is served, beside an incomplete target
C30_Witness ==
    \E c \in Callers : Returned(c) /\
        \E key \in DOMAIN GroupsOf(c) :
            LET g == GroupsOf(c)[key]
            IN  /\ HasNormalRouter(c, key, g)
                /\ Len(g.targets) = 2
                /\ Cardinality(UsableTargets(g)) = 1
                /\ \A j \in Indices(g.targets) : ~g.targets[j].site.online
                /\ Len(HttpServersIn(doc[c], key, g)) = 1

====
